---- MODULE Spec2Model ----
(***************************************************************************)
(* Verification model of rustc-perf:                                       *)
(*   - the time-series interpolator of the site (site/src/load.rs,         *)
(*     InputData::new with fill_benchmark_data / fill_benchmark_runs /     *)
(*     interpolate_stats), specification SpecInterp;                       *)
(*   - the execution matrix runner of the collector (Benchmark::measure,   *)
(*     CargoProcess::run_rustc and the three Processor strategies),        *)
(*     specifications SpecMeasure and FairSpecMeasure.                     *)
(*                                                                         *)
(* Sequences are 1-based here and 0-based in the source; every index       *)
(* computation of the source is a difference of two indices, so the        *)
(* arithmetic is unchanged.                                                *)
(***************************************************************************)
EXTENDS Integers, Sequences, FiniteSets, TLC

(***************************************************************************)
(* Bounds of the model.                                                    *)
(***************************************************************************)
\* number of commits of the loaded dataset
NumCommits == 4
\* largest number of try commits (they sort first: sentinel date 2000-01-01)
MaxTry == 1

(***************************************************************************)
(* Generic helpers.                                                        *)
(***************************************************************************)
Abs(x) == IF x < 0 THEN 0 - x ELSE x

RECURSIVE GCD(_, _)
GCD(a, b) == IF b = 0 THEN a ELSE GCD(b, a % b)

SetMax(S) == CHOOSE x \in S : \A y \in S : y <= x

SetMin(S) == CHOOSE x \in S : \A y \in S : x <= y

Range(s) == {s[i] : i \in DOMAIN s}

Reverse(s) == [i \in 1..Len(s) |-> s[Len(s) + 1 - i]]

RECURSIVE Flatten(_)
Flatten(ss) == IF ss = <<>> THEN <<>> ELSE Head(ss) \o Flatten(Tail(ss))

\* all orderings of a finite set, as sequences without repetition
Orderings(S) == {s \in [1..Cardinality(S) -> S] : Range(s) = S}

(***************************************************************************)
(* f64 statistic values.  A finite value is the exact rational n/d in      *)
(* lowest terms (rounding is not modelled); division by zero and its       *)
(* consequences follow IEEE-754: x/0 is an infinity for x # 0 and NaN for  *)
(* x = 0, infinity * 0 is NaN, NaN is absorbing.                           *)
(***************************************************************************)
NaN == [k |-> "nan", n |-> 0, d |-> 1]

Inf(sign) == [k |-> "inf", n |-> sign, d |-> 1]

Norm(n, d) == LET g == GCD(Abs(n), d) IN [k |-> "num", n |-> n \div g, d |-> d \div g]

F(n) == [k |-> "num", n |-> n, d |-> 1]

FNeg(a) == [a EXCEPT !.n = 0 - a.n]

FAdd(a, b) ==
    IF a.k = "nan" \/ b.k = "nan" THEN NaN
    ELSE IF a.k = "inf" /\ b.k = "inf" THEN (IF a.n = b.n THEN a ELSE NaN)
    ELSE IF a.k = "inf" THEN a
    ELSE IF b.k = "inf" THEN b
    ELSE Norm(a.n * b.d + b.n * a.d, a.d * b.d)

FSub(a, b) == FAdd(a, FNeg(b))

\* a / (u as f64), u a usize
FDiv(a, u) ==
    IF a.k = "nan" THEN NaN
    ELSE IF a.k = "inf" THEN a
    ELSE IF u = 0 THEN (IF a.n = 0 THEN NaN ELSE Inf(IF a.n > 0 THEN 1 ELSE 0 - 1))
    ELSE Norm(a.n, a.d * u)

\* a * (u as f64), u a usize
FMul(a, u) ==
    IF a.k = "nan" THEN NaN
    ELSE IF a.k = "inf" THEN (IF u = 0 THEN NaN ELSE a)
    ELSE Norm(a.n * u, a.d)

\* a <= b on finite values; every comparison with NaN is false
FLe(a, b) ==
    /\ a.k # "nan" /\ b.k # "nan"
    /\ IF a.k = "inf" THEN (a.n < 0 \/ (b.k = "inf" /\ b.n > 0))
       ELSE IF b.k = "inf" THEN b.n > 0
       ELSE a.n * b.d <= b.n * a.d

(***************************************************************************)
(* Data model of the loaded dataset.                                       *)
(***************************************************************************)
BenchmarkNames == {"foo"}

RunIds == {"clean", "patched incremental: println"}

SentinelDate == "2000-01-01"

MeasuredDate == "2020-01-01"

IsTryNever(commit) == FALSE

\* Commit::is_try
is_try(commit) == commit.date = SentinelDate

StatsA == [s \in {"wall-time"} |-> F(10)]

StatsB == [s \in {"wall-time", "max-rss"} |-> IF s = "wall-time" THEN F(30) ELSE F(4)]

StatsC == [s \in {"wall-time", "max-rss"} |-> IF s = "wall-time" THEN F(30) ELSE F(8)]

MkRun(id, stats) == [id |-> id, stats |-> stats]

Absent == [tag |-> "absent", runs |-> <<>>]

Failed == [tag |-> "err", runs |-> <<>>]

Ok(runs) == [tag |-> "ok", runs |-> runs]

\* the entries a commit can hold for one benchmark
BenchmarkChoices ==
    { Absent, Failed,
      Ok(<<MkRun("clean", StatsA)>>),
      Ok(<<MkRun("clean", StatsB)>>),
      Ok(<<MkRun("clean", StatsA), MkRun("patched incremental: println", StatsB)>>),
      Ok(<<MkRun("patched incremental: println", StatsA), MkRun("clean", StatsC)>>),
      Ok(<<MkRun("patched incremental: println", StatsC)>>) }

\* from_fs sorts the commits by (date, sha): the try commits come first
MkCommit(i, numTry) == [sha |-> i, date |-> IF i <= numTry THEN SentinelDate ELSE MeasuredDate]

Datasets ==
    { [i \in 1..NumCommits |-> [commit |-> MkCommit(i, t), benchmarks |-> bm[i]]] :
        t \in 0..MaxTry, bm \in [1..NumCommits -> [BenchmarkNames -> BenchmarkChoices]] }

VARIABLES
    data_real,       \* the measured dataset, data(Interpolate::No)
    data_next,       \* the dataset being filled, data(Interpolate::Yes)
    interpolated,    \* sha -> sequence of Interpolation records
    bench_order,     \* iteration order of current_benchmarks (a HashSet)
    commit_idx,      \* outer loop position of InputData::new
    bench_pos,       \* inner loop position of InputData::new
    ipc,             \* "bench", "runs", "finish", "done" or "panicked"
    fills            \* the fills made so far: target, neighbours, arguments of interpolate_stats

ivars == <<data_real, data_next, interpolated, bench_order, commit_idx, bench_pos, ipc, fills>>

IsOk(cd, b) == cd.benchmarks[b].tag = "ok"

HasRun(cd, b, r) == IsOk(cd, b) /\ \E k \in DOMAIN cd.benchmarks[b].runs : cd.benchmarks[b].runs[k].id = r

\* the commits of `rev().take(20)`
RecentWindow == 20

Recent(data) == {i \in 1..Len(data) : i > Len(data) - RecentWindow}

current_benchmarks(data) ==
    {b \in BenchmarkNames : \E i \in Recent(data) : data[i].benchmarks[b].tag # "absent"}

HasKnownRuns(data, b) == \E i \in Recent(data) : IsOk(data[i], b)

KnownRunsAll(data, b) == RunIds

known_runs(data, b) == {r \in RunIds : \E i \in Recent(data) : HasRun(data[i], b, r)}

present_commits(data, b) == SelectSeq([i \in 1..Len(data) |-> i], LAMBDA i : IsOk(data[i], b))

\* HashMap::insert overwrites: the last run of the benchmark with that id
RunOf(cd, b, r) ==
    LET runs == cd.benchmarks[b].runs
    IN runs[SetMax({k \in DOMAIN runs : runs[k].id = r})]

NoneSeen == [idx |-> 0, run |-> MkRun("", <<>>)]

LastSeenRunNever(data, c, b, r) == NoneSeen

last_seen_run(data, c, b, r) ==
    LET S == {i \in 1..c : HasRun(data[i], b, r)}
    IN IF S = {} THEN NoneSeen ELSE [idx |-> SetMax(S), run |-> RunOf(data[SetMax(S)], b, r)]

next_seen_run(data, c, b, r) ==
    LET S == {i \in c..Len(data) : HasRun(data[i], b, r)}
    IN IF S = {} THEN NoneSeen ELSE [idx |-> SetMin(S), run |-> RunOf(data[SetMin(S)], b, r)]

InterpolateStatsFromEnd(srun, erun, distance, from_start) ==
    [st \in (DOMAIN srun.stats) \cap (DOMAIN erun.stats) |->
        LET slope == FDiv(FSub(erun.stats[st], srun.stats[st]), distance)
        IN FAdd(FMul(slope, from_start), erun.stats[st])]

\* slope * from_start + start, per statistic present in both runs
interpolate_stats(srun, erun, distance, from_start) ==
    [st \in (DOMAIN srun.stats) \cap (DOMAIN erun.stats) |->
        LET slope == FDiv(FSub(erun.stats[st], srun.stats[st]), distance)
        IN FAdd(FMul(slope, from_start), srun.stats[st])]

Interpolation(b, run) == [benchmark |-> b, run |-> run]

\* HashMap::entry(sha).or_insert_with(Vec::new)
Entry(map, sha) == IF sha \in DOMAIN map THEN map ELSE (sha :> <<>>) @@ map

Push(map, sha, rec) == [Entry(map, sha) EXCEPT ![sha] = Append(@, rec)]

StartNeedleFirst(data, b, c) ==
    LET s == SelectSeq(present_commits(data, b), LAMBDA i : i <= c)
    IN IF s = <<>> THEN 0 ELSE s[1]

\* start and end needles of fill_benchmark_data (0 for None)
StartNeedle(data, b, c) ==
    LET s == SelectSeq(present_commits(data, b), LAMBDA i : i <= c)
    IN IF s = <<>> THEN 0 ELSE s[Len(s)]

EndNeedleNone(data, b, c) == 0

EndNeedle(data, b, c) ==
    LET s == SelectSeq(Reverse(present_commits(data, b)), LAMBDA i : i >= c)
    IN IF s = <<>> THEN 0 ELSE s[Len(s)]

\* one fill: the level ("bench" or "run"), the benchmark and run filled at
\* commit c, the indices of the start and end found (0 for None), whether
\* interpolate_stats was called, and the arguments it was called with
Fill(level, b, run, c, start, end, called, distance, from_start) ==
    [level |-> level, benchmark |-> b, run |-> run, c |-> c, start |-> start, end |-> end,
     called |-> called, distance |-> distance, from_start |-> from_start]

\* the value returned by fill_benchmark_data: filled = FALSE for None
fill_benchmark_data(data, b, c) ==
    LET start == StartNeedle(data, b, c)
        end == EndNeedle(data, b, c)
    IN IF start # 0 /\ end # 0 THEN
           LET distance == end - start
               from_start == c - start
               start_runs == data[start].benchmarks[b].runs
               end_runs == data[end].benchmarks[b].runs
               Pair(srun) ==
                   LET m == SelectSeq(end_runs, LAMBDA erun : srun.id = erun.id)
                   IN [j \in 1..Len(m) |->
                         [srun EXCEPT !.stats = interpolate_stats(srun, m[j], distance, from_start)]]
               runs == Flatten([i \in 1..Len(start_runs) |-> Pair(start_runs[i])])
           IN [filled |-> TRUE, runs |-> runs,
               fill |-> Fill("bench", b, "None", c, start, end, runs # <<>>, distance, from_start)]
       ELSE IF start # 0 THEN [filled |-> TRUE, runs |-> data[start].benchmarks[b].runs,
                               fill |-> Fill("bench", b, "None", c, start, 0, FALSE, 0, 0)]
       ELSE IF end # 0 THEN [filled |-> TRUE, runs |-> data[end].benchmarks[b].runs,
                             fill |-> Fill("bench", b, "None", c, 0, end, FALSE, 0, 0)]
       ELSE [filled |-> FALSE, runs |-> <<>>,
             fill |-> Fill("bench", b, "None", c, 0, 0, FALSE, 0, 0)]

\* one iteration of the loop of fill_benchmark_runs; "unreachable" when
\* neither a start nor an end exists
FillOneRun(data, b, c, missing_run) ==
    LET start == last_seen_run(data, c, b, missing_run)
        end == next_seen_run(data, c, b, missing_run)
    IN IF start.idx # 0 /\ end.idx # 0 THEN
           LET distance == (c - start.idx - 1) + (end.idx - c - 1)
               from_start == c - start.idx - 1
           IN [panic |-> FALSE,
               run |-> [start.run EXCEPT !.stats = interpolate_stats(start.run, end.run, distance, from_start)],
               fill |-> Fill("run", b, missing_run, c, start.idx, end.idx, TRUE, distance, from_start)]
       ELSE IF start.idx # 0 THEN [panic |-> FALSE, run |-> start.run,
                                   fill |-> Fill("run", b, missing_run, c, start.idx, 0, FALSE, 0, 0)]
       ELSE IF end.idx # 0 THEN [panic |-> FALSE, run |-> end.run,
                                 fill |-> Fill("run", b, missing_run, c, 0, end.idx, FALSE, 0, 0)]
       ELSE [panic |-> TRUE, run |-> NoneSeen.run,
             fill |-> Fill("run", b, missing_run, c, 0, 0, FALSE, 0, 0)]

\* the assert_ne!(start_commit / end_commit, Some(data.commit)) of the loop
FillRunAsserts(data, b, c, missing_run) ==
    LET start == last_seen_run(data, c, b, missing_run).idx
        end == next_seen_run(data, c, b, missing_run).idx
    IN /\ start # 0 => data[start].commit # data[c].commit
       /\ end # 0 => data[end].commit # data[c].commit

\* fill_benchmark_runs over the missing runs in the given order
fill_benchmark_runs(data, b, c, missing_runs) ==
    [k \in 1..Len(missing_runs) |-> FillOneRun(data, b, c, missing_runs[k])]

(***************************************************************************)
(* The collector: tools, processors and the execution matrix runner.       *)
(***************************************************************************)
\* largest number of build kinds of one request
MaxBuildKinds == 2
\* largest number of patch files of a benchmark
MaxPatches == 2

Min2(a, b) == IF a < b THEN a ELSE b

Max2(a, b) == IF a > b THEN a ELSE b

Contains(list, x) == \E k \in DOMAIN list : list[k] = x

BuildKinds == {"Check", "Debug", "Opt"}

RunKinds == {"Full", "IncrFull", "IncrUnchanged", "IncrPatched"}

Profilers ==
    {"perf-stat", "perf-stat-self-profile", "self-profile", "time-passes", "perf-record",
     "oprofile", "cachegrind", "callgrind", "dhat", "massif", "eprintln", "llvm-lines"}

\* Profiler::subcommand
subcommand(profiler) == IF profiler = "llvm-lines" THEN "llvm-lines" ELSE "rustc"

\* the variants of enum Profiler
ProfilerVariants ==
    {"PerfStat", "PerfStatSelfProfile", "SelfProfile", "TimePasses", "PerfRecord", "OProfile",
     "Cachegrind", "Callgrind", "DHAT", "Massif", "Eprintln", "LlvmLines"}

FromNameOk(variant) == [tag |-> "Ok", profiler |-> variant, error |-> "None", carried |-> "None"]

FromNameErr(error, carried) == [tag |-> "Err", profiler |-> "None", error |-> error, carried |-> carried]

FromNameTakesPerfStat(name) ==
    CASE name = "perf-stat" -> FromNameOk("PerfStat")
      [] name = "self-profile" -> FromNameOk("SelfProfile")
      [] name = "time-passes" -> FromNameOk("TimePasses")
      [] name = "perf-record" -> FromNameOk("PerfRecord")
      [] name = "oprofile" -> FromNameOk("OProfile")
      [] name = "cachegrind" -> FromNameOk("Cachegrind")
      [] name = "callgrind" -> FromNameOk("Callgrind")
      [] name = "dhat" -> FromNameOk("DHAT")
      [] name = "massif" -> FromNameOk("Massif")
      [] name = "eprintln" -> FromNameOk("Eprintln")
      [] name = "llvm-lines" -> FromNameOk("LlvmLines")
      [] OTHER -> FromNameErr("UnknownProfiler", name)

\* Profiler::from_name
from_name(name) ==
    CASE name = "perf-stat" -> FromNameErr("PerfStat", "None")
      [] name = "self-profile" -> FromNameOk("SelfProfile")
      [] name = "time-passes" -> FromNameOk("TimePasses")
      [] name = "perf-record" -> FromNameOk("PerfRecord")
      [] name = "oprofile" -> FromNameOk("OProfile")
      [] name = "cachegrind" -> FromNameOk("Cachegrind")
      [] name = "callgrind" -> FromNameOk("Callgrind")
      [] name = "dhat" -> FromNameOk("DHAT")
      [] name = "massif" -> FromNameOk("Massif")
      [] name = "eprintln" -> FromNameOk("Eprintln")
      [] name = "llvm-lines" -> FromNameOk("LlvmLines")
      [] OTHER -> FromNameErr("UnknownProfiler", name)

\* Profiler::name
name_of(variant) ==
    CASE variant = "PerfStat" -> "perf-stat"
      [] variant = "PerfStatSelfProfile" -> "perf-stat-self-profile"
      [] variant = "SelfProfile" -> "self-profile"
      [] variant = "TimePasses" -> "time-passes"
      [] variant = "PerfRecord" -> "perf-record"
      [] variant = "OProfile" -> "oprofile"
      [] variant = "Cachegrind" -> "cachegrind"
      [] variant = "Callgrind" -> "callgrind"
      [] variant = "DHAT" -> "dhat"
      [] variant = "Massif" -> "massif"
      [] variant = "Eprintln" -> "eprintln"
      [] variant = "LlvmLines" -> "llvm-lines"

IsBuildKindAllowedAlways(profiler, build_kind) == TRUE

\* Profiler::is_build_kind_allowed
is_build_kind_allowed(profiler, build_kind) ==
    IF profiler = "llvm-lines" THEN build_kind # "Check" ELSE TRUE

IsRunKindAllowedIncrFullToo(profiler, run_kind) ==
    IF profiler = "llvm-lines" THEN run_kind \in {"Full", "IncrFull"} ELSE TRUE

\* Profiler::is_run_kind_allowed
is_run_kind_allowed(profiler, run_kind) ==
    IF profiler = "llvm-lines" THEN run_kind = "Full" ELSE TRUE

(***************************************************************************)
(* Process output and its parser.  A line is either the self-profile       *)
(* marker line or the list of its `;`-separated, trimmed fields.           *)
(***************************************************************************)
StatLine(cnt, name, pct) == [marker |-> FALSE, parts |-> <<cnt, "", name, "4", pct>>]

MarkerLine == [marker |-> TRUE, parts |-> <<"{query_data}">>]

\* a marker line whose payload is not the JSON of a SelfProfile
BadMarkerLine == [marker |-> TRUE, parts |-> <<"not json">>]

\* serde_json::from_str::<SelfProfile> succeeds on the payloads that occur
JsonOk(payload) == payload = "{query_data}"

SkippedOnlyEmpty(cnt) == cnt = ""

\* cnt == "<not supported>" || cnt.len() == 0
Skipped(cnt) == cnt = "<not supported>" \/ cnt = ""

StartsWithAnything(pct) == TRUE

\* str::starts_with("100.") on the percentage fields that occur
StartsWith100(pct) == pct \in {"100.00", "100.0"}

\* str::parse::<f64> on the count fields that occur: -1 for a ParseFloatError
ParseF64(cnt) == IF cnt = "3" THEN 3 ELSE IF cnt = "5" THEN 5 ELSE 0 - 1

EmptyStats == << >>

\* Stats::insert
StatsInsert(stats, name, value) ==
    [n \in (DOMAIN stats) \cup {name} |-> IF n = name THEN value ELSE stats[n]]

\* Stats::combine_with: sum per statistic
combine_with(stats, other) ==
    [n \in (DOMAIN stats) \cup (DOMAIN other) |->
        (IF n \in DOMAIN stats THEN stats[n] ELSE 0) + (IF n \in DOMAIN other THEN other[n] ELSE 0)]

RECURSIVE ParseLines(_, _, _, _)
ParseLines(lines, k, stats, profile) ==
    IF k > Len(lines)
    THEN IF stats = EmptyStats
         THEN [tag |-> "NoOutput", stats |-> EmptyStats, profile |-> "None"]
         ELSE [tag |-> "Ok", stats |-> stats, profile |-> profile]
    ELSE LET line == lines[k]
         IN IF line.marker
            THEN IF JsonOk(line.parts[1])
                 THEN ParseLines(lines, k + 1, stats, line.parts[1])
                 ELSE [tag |-> "panic", stats |-> EmptyStats, profile |-> "None"]
            ELSE IF Len(line.parts) < 5 THEN ParseLines(lines, k + 1, stats, profile)
            ELSE IF Skipped(line.parts[1]) THEN ParseLines(lines, k + 1, stats, profile)
            ELSE IF ~StartsWith100(line.parts[5])
                 THEN [tag |-> "panic", stats |-> EmptyStats, profile |-> "None"]
            ELSE IF ParseF64(line.parts[1]) < 0
                 THEN [tag |-> "ParseError", stats |-> EmptyStats, profile |-> "None"]
            ELSE ParseLines(lines, k + 1,
                            StatsInsert(stats, line.parts[3], ParseF64(line.parts[1])), profile)

process_perf_stat_output(output) == ParseLines(output, 1, EmptyStats, "None")

\* what a leaf process that exited successfully can have printed
NoRustcOutput == << >>

GoodOutput(wrapper) ==
    <<StatLine("3", "instructions:u", "100.00"), StatLine("5", "max-rss", "100.00")>>
        \o (IF wrapper = "perf-stat-self-profile" THEN <<MarkerLine>> ELSE << >>)

MultiplexedOutput == <<StatLine("3", "instructions:u", "57.31")>>

LeafOutputs(wrapper) ==
    IF wrapper \in {"perf-stat", "perf-stat-self-profile"}
    THEN {NoRustcOutput, GoodOutput(wrapper), MultiplexedOutput}
    ELSE {NoRustcOutput}

NoOutputYet == <<[marker |-> FALSE, parts |-> <<"(no process output)">>]>>

\* largest number of lines of a process output given to the parser
MaxLines == 3

\* the lines of the outputs given to the parser: marker lines, lines of
\* fewer than five fields (an empty line, a line of four fields) and lines
\* of five fields with each kind of count and of percentage
ParserLines ==
    {MarkerLine, BadMarkerLine,
     [marker |-> FALSE, parts |-> <<"">>],
     [marker |-> FALSE, parts |-> <<"3", "", "instructions:u", "4">>],
     StatLine("5", "max-rss", "100.00")}
    \cup {StatLine(cnt, "instructions:u", pct) :
             cnt \in {"", "<not supported>", "3", "abc"}, pct \in {"100.00", "57.31"}}

ParserOutputs == UNION {[1..n -> ParserLines] : n \in 0..MaxLines}

(***************************************************************************)
(* Inputs of Benchmark::measure.                                           *)
(***************************************************************************)
MeasureProcessor(self_profile) ==
    [kind |-> "Measure", self_profile |-> self_profile, profiler |-> "perf-stat", upload_to_s3 |-> FALSE]

BenchProcessor(is_self_profile, s3) ==
    [kind |-> "Bench", self_profile |-> is_self_profile, profiler |-> "perf-stat", upload_to_s3 |-> s3]

ProfileProcessor(profiler) ==
    [kind |-> "Profile", self_profile |-> FALSE, profiler |-> profiler, upload_to_s3 |-> FALSE]

Processors ==
    {MeasureProcessor(FALSE), MeasureProcessor(TRUE),
     BenchProcessor(FALSE, FALSE), BenchProcessor(TRUE, TRUE),
     ProfileProcessor("llvm-lines"), ProfileProcessor("cachegrind")}

CanonicalBuildKinds == <<"Check", "Debug", "Opt">>

AllRunKinds == <<"Full", "IncrFull", "IncrUnchanged", "IncrPatched">>

\* kinds_from_arg: the requested kinds without duplicates, in table order
kinds_from_arg(table, kind_set) == SelectSeq(table, LAMBDA k : k \in kind_set)

\* one build kind, or MaxBuildKinds of them
BuildKindLists ==
    {kinds_from_arg(CanonicalBuildKinds, S) :
        S \in {T \in SUBSET BuildKinds : Cardinality(T) \in {1, Min2(MaxBuildKinds, 3)}}}

\* the lists of the callers (table order) and a list in another order
RunKindLists ==
    {kinds_from_arg(AllRunKinds, S) :
        S \in {{"Full"}, {"IncrUnchanged"}, {"IncrPatched"}, {"Full", "IncrPatched"}, RunKinds}}
    \cup {<<"IncrPatched", "Full">>}

\* the iteration counts the callers pass (bench_commit: 3 or 1, profile: 1)
RequestedIterations == {1, 3}

\* default_runs: `runs` of a perf-config.json that does not set it
default_runs == 3

\* the values of `runs` in perf-config.json: none and the default
ConfigRuns == {0, default_runs}

(***************************************************************************)
(* Patch files.  A file name is the sequence of its characters, so that    *)
(* splitting on `-`, joining with spaces, removing `.patch` and comparing  *)
(* paths byte by byte are computed as the library computes them.           *)
(***************************************************************************)
Digits == <<"0", "1", "2", "3", "4", "5", "6", "7", "8", "9">>

Letters == <<"a", "b", "c", "d", "e", "f", "g", "h", "i", "j", "k", "l", "m",
             "n", "o", "p", "q", "r", "s", "t", "u", "v", "w", "x", "y", "z">>

IndexIn(list, ch) == CHOOSE k \in DOMAIN list : list[k] = ch

IsDigit(ch) == ch \in Range(Digits)

\* the byte of a character of a file name
ByteOf(ch) ==
    IF ch = " " THEN 32
    ELSE IF ch = "-" THEN 45
    ELSE IF ch = "." THEN 46
    ELSE IF IsDigit(ch) THEN 47 + IndexIn(Digits, ch)
    ELSE 96 + IndexIn(Letters, ch)

\* the file names of a benchmark directory
File_0_println == <<"0", "-", "p", "r", "i", "n", "t", "l", "n", ".", "p", "a", "t", "c", "h">>

File_8_println == <<"8", "-", "p", "r", "i", "n", "t", "l", "n", ".", "p", "a", "t", "c", "h">>

File_10_println == <<"1", "0", "-", "p", "r", "i", "n", "t", "l", "n", ".", "p", "a", "t", "c", "h">>

File_2_dummy_fn == <<"2", "-", "d", "u", "m", "m", "y", "-", "f", "n", ".", "p", "a", "t", "c", "h">>

File_3_new_row == <<"3", "-", "n", "e", "w", "-", "r", "o", "w", ".", "p", "a", "t", "c", "h">>

File_4_a_patch_b == <<"4", "-", "a", ".", "p", "a", "t", "c", "h", "-", "b", ".", "p", "a", "t", "c", "h">>

File_x_println == <<"x", "-", "p", "r", "i", "n", "t", "l", "n", ".", "p", "a", "t", "c", "h">>

File_perf_config == <<"p", "e", "r", "f", "-", "c", "o", "n", "f", "i", "g", ".", "j", "s", "o", "n">>

DotPatch == <<".", "p", "a", "t", "c", "h">>

\* String::from of a sequence of characters
RECURSIVE Str(_)
Str(chars) == IF chars = <<>> THEN "" ELSE Head(chars) \o Str(Tail(chars))

\* str::split(sep) for a separator of one character
RECURSIVE Split(_, _)
Split(chars, sep) ==
    LET S == {k \in DOMAIN chars : chars[k] = sep}
    IN IF S = {} THEN <<chars>>
       ELSE <<SubSeq(chars, 1, SetMin(S) - 1)>> \o Split(SubSeq(chars, SetMin(S) + 1, Len(chars)), sep)

\* str::parse::<usize>: -1 for a ParseIntError
RECURSIVE ParseUsize(_)
ParseUsize(chars) ==
    IF chars = <<>> \/ \E k \in DOMAIN chars : ~IsDigit(chars[k]) THEN 0 - 1
    ELSE IF Len(chars) = 1 THEN IndexIn(Digits, chars[1]) - 1
    ELSE 10 * ParseUsize(SubSeq(chars, 1, Len(chars) - 1)) + (IndexIn(Digits, chars[Len(chars)]) - 1)

StartsWithSeq(chars, pat) == Len(chars) >= Len(pat) /\ SubSeq(chars, 1, Len(pat)) = pat

\* str::replace(pat, ""): every occurrence, left to right, is removed
RECURSIVE Remove(_, _)
Remove(chars, pat) ==
    IF chars = <<>> THEN <<>>
    ELSE IF StartsWithSeq(chars, pat) THEN Remove(SubSeq(chars, Len(pat) + 1, Len(chars)), pat)
    ELSE <<Head(chars)>> \o Remove(Tail(chars), pat)

\* the fold of Patch::new: every part followed by a space
RECURSIVE FoldParts(_)
FoldParts(parts) == IF parts = <<>> THEN <<>> ELSE Head(parts) \o <<" ">> \o FoldParts(Tail(parts))

PatchNameKeepsHyphens(file_name) ==
    LET rest == SubSeq(file_name, Len(Split(file_name, "-")[1]) + 2, Len(file_name))
    IN Str(Remove(rest, DotPatch))

\* the name of Patch::new: the parts after the first joined by spaces, the
\* final space taken off, `.patch` removed
PatchName(file_name) ==
    LET name == FoldParts(Tail(Split(file_name, "-")))
    IN Str(Remove(SubSeq(name, 1, Len(name) - 1), DotPatch))

\* Patch::new on the file name of the path: panics when the part before
\* the first `-` is not a number
Patch_new(file_name) ==
    LET index == ParseUsize(Split(file_name, "-")[1])
    IN IF index < 0
       THEN [panic |-> TRUE, patch |-> [index |-> 0, name |-> "", path |-> ""]]
       ELSE [panic |-> FALSE,
             patch |-> [index |-> index, name |-> PatchName(file_name), path |-> Str(file_name)]]

PatchEqDerived(a, b) == a.index = b.index /\ a.name = b.name /\ a.path = b.path

\* impl PartialEq for Patch
PatchEq(a, b) == a.name = b.name

\* impl Hash for Patch: what is fed to the hasher
PatchHash(a) == <<a.name>>

IncrementalPatched(patch) == [kind |-> "IncrementalPatched", patch |-> patch]

\* derived PartialEq of BenchmarkState
BenchmarkStateEq(a, b) ==
    /\ a.kind = b.kind
    /\ a.kind = "IncrementalPatched" => PatchEq(a.patch, b.patch)

\* derived Hash of BenchmarkState
BenchmarkStateHash(a) ==
    IF a.kind = "IncrementalPatched" THEN <<a.kind>> \o PatchHash(a.patch) ELSE <<a.kind>>

\* BenchmarkState::erase_path
erase_path(state) ==
    IF state.kind = "IncrementalPatched"
    THEN [state EXCEPT !.patch.index = 0, !.patch.path = ""]
    ELSE state

\* Run::id
Run_id(run) == [check |-> run.check, release |-> run.release, state |-> erase_path(run.state)]

\* derived PartialEq of RunId
RunIdEq(a, b) == a.check = b.check /\ a.release = b.release /\ BenchmarkStateEq(a.state, b.state)

\* derived Hash of RunId
RunIdHash(a) == <<a.check, a.release>> \o BenchmarkStateHash(a.state)

\* Ord of two paths of one directory: the file names, byte by byte
RECURSIVE PathLess(_, _)
PathLess(a, b) ==
    IF b = <<>> THEN FALSE
    ELSE IF a = <<>> THEN TRUE
    ELSE IF ByteOf(Head(a)) # ByteOf(Head(b)) THEN ByteOf(Head(a)) < ByteOf(Head(b))
    ELSE PathLess(Tail(a), Tail(b))

\* Path::extension() == "patch"
HasPatchExtension(file_name) ==
    /\ Len(file_name) > Len(DotPatch)
    /\ SubSeq(file_name, Len(file_name) - Len(DotPatch) + 1, Len(file_name)) = DotPatch

\* Vec::sort of the paths
RECURSIVE SortPaths(_)
SortPaths(files) ==
    IF files = {} THEN <<>>
    ELSE LET first == CHOOSE f \in files : \A g \in files \ {f} : PathLess(f, g)
         IN <<first>> \o SortPaths(files \ {first})

\* Benchmark::new: the `.patch` files of the directory, sorted by path,
\* each made a Patch
Benchmark_new(dir) ==
    LET sorted == SortPaths({f \in dir : HasPatchExtension(f)})
    IN [k \in DOMAIN sorted |-> Patch_new(sorted[k]).patch]

\* the patch files of the benchmark directories, as read_dir lists them
DirFiles == <<File_10_println, File_2_dummy_fn, File_3_new_row>>

\* a directory without patches and one with MaxPatches of them
PatchDirs == {{File_perf_config} \cup {DirFiles[k] : k \in 1..n} : n \in {0, MaxPatches}}

\* the patches of the largest benchmark directory
PatchFiles == Benchmark_new({DirFiles[k] : k \in 1..MaxPatches})

PatchLists == {Benchmark_new(dir) : dir \in PatchDirs}

VARIABLES
    processor,            \* the processor handed to measure (its configuration)
    build_kinds,          \* argument of measure
    run_kinds,            \* argument of measure
    requested,            \* argument `iterations` of measure
    config,               \* BenchmarkConfig: runs, disabled
    patches,              \* Benchmark.patches
    mpc,                  \* position in measure / run_rustc
    bk,                   \* index of the current build kind
    i,                    \* loop variable of the iteration loop
    leaf_pos,             \* position in the leaf sequence of the iteration
    dirs,                 \* number of temp dirs created so far
    cwd,                  \* the current timing dir: id, applied patches
    is_first_collection,  \* processor field
    tries,                \* BenchProcessor field (u8)
    buckets,              \* MeasureProcessor accumulators
    upload,               \* BenchProcessor.upload: "None" or "Some"
    in_flight,            \* number of uploads started and not yet finished
    conn,                 \* what BenchProcessor recorded through the connection
    runs,                 \* the Vec<Run> measure returns
    output,               \* output of the leaf process that just exited
    err,                  \* the error measure returned / the panic
    ops,                  \* kinds of external processes spawned so far
    leaf_spawned,         \* a process was spawned for the current leaf
    completed,            \* leaves that returned Ok in the current timing dir
    last_leaf,            \* the leaf of the last toolchain invocation with a processor
    exit_status,          \* how the last toolchain process of a leaf ended
    wrapper,              \* the --wrap-rustc-with argument of the last toolchain invocation
    iters_run,            \* iterations started for the current build kind
    different,            \* last answer of finished_first_collection
    retry                 \* last answer of process_output

VARIABLES
    stdout,               \* the lines of the output given to process_perf_stat_output
    parsed,               \* what process_perf_stat_output returned
    ppc                   \* position of the parser: "idle", "parse", "parsed"

pvars == <<stdout, parsed, ppc>>

VARIABLES
    benchmarks,           \* argument of bench_commit: name, config and patches of each
    args,                 \* the other arguments of bench_commit
    existing_data,        \* what load_commit_data gave: nothing, or the stored entries
    results,              \* the BTreeMap bench_commit returns
    bidx,                 \* position of the loop over the benchmarks
    bpc,                  \* position in bench_commit
    home,                 \* the requests sent home
    measured,             \* names of the benchmarks measure was called for, in order
    spawned_for           \* processes spawned_for on behalf of each benchmark

cvars == <<benchmarks, args, existing_data, results, bidx, bpc, home, measured, spawned_for>>

VARIABLES
    file_names,           \* the file names of two patch files
    run_flags,            \* the check and release flags of two runs
    built,                \* the patches Patch::new made of the file names, in order
    run_ids,              \* the ids of the two runs patched with them
    npc                   \* position: "idle", "new", "ids", "done" or "panicked"

nvars == <<file_names, run_flags, built, run_ids, npc>>

VARIABLES
    tool_query,           \* a profiler, a build kind and a run kind
    tool_answer,          \* what the three functions of Profiler answer for them
    tpc,                  \* position: "idle", "ask" or "answered"
    name_arg,             \* the string given to Profiler::from_name
    resolved              \* what from_name returned, and name() of the tool it found

tvars == <<tool_query, tool_answer, tpc, name_arg, resolved>>

\* the variables of the parts of the program other than the interpolator
\* and the runner
VARIABLES
    updating,             \* Server.updating, the AtomicBool
    server_data,          \* Server.data: the number of the request whose reload wrote it, 0 at start
    rpc,                  \* position of every push request
    response              \* the response every push request got

svars == <<updating, server_data, rpc, response>>

xvars == <<pvars, cvars, nvars, tvars, svars>>

mvars == <<processor, build_kinds, run_kinds, requested, config, patches, mpc, bk, i, leaf_pos,
           dirs, cwd, is_first_collection, tries, buckets, upload, in_flight, conn, runs, output, err,
           ops, leaf_spawned, completed, last_leaf, exit_status, wrapper, iters_run, different, retry>>

inputs == <<processor, build_kinds, run_kinds, requested, config, patches>>

\* let iterations = cmp::min(iterations, self.config.runs)
iterations == Min2(requested, config.runs)

build_kind == build_kinds[bk]

\* the leaves of one iteration, in the order of the body of the loop
Leaf(run_kind, patch) == [run_kind |-> run_kind, patch |-> patch]

LeafPlanAsListed(kinds, patch_list) ==
    Flatten([k \in 1..Len(kinds) |->
        IF kinds[k] = "IncrPatched"
        THEN [q \in 1..Len(patch_list) |-> Leaf("IncrPatched", q)]
        ELSE <<Leaf(kinds[k], 0)>>])

LeafPlan(kinds, patch_list) ==
    (IF Contains(kinds, "Full") THEN <<Leaf("Full", 0)>> ELSE << >>)
    \o (IF Contains(kinds, "IncrFull") \/ Contains(kinds, "IncrUnchanged")
           \/ Contains(kinds, "IncrPatched")
        THEN <<Leaf("IncrFull", 0)>> ELSE << >>)
    \o (IF Contains(kinds, "IncrUnchanged") THEN <<Leaf("IncrUnchanged", 0)>> ELSE << >>)
    \o (IF Contains(kinds, "IncrPatched")
        THEN [k \in 1..Len(patch_list) |-> Leaf("IncrPatched", k)] ELSE << >>)

PlanOfRequested ==
    SelectSeq(LeafPlan(run_kinds, patches), LAMBDA l : Contains(run_kinds, l.run_kind))

\* the leaves of an iteration of this call of measure
plan == LeafPlan(run_kinds, patches)

leaf == plan[leaf_pos]

ProfilerIgnoresFirstCollection ==
    IF processor.kind = "Profile" THEN processor.profiler
    ELSE IF processor.self_profile THEN "perf-stat-self-profile"
    ELSE "perf-stat"

\* Processor::profiler (perf_tool for BenchProcessor)
profiler ==
    IF processor.kind = "Profile" THEN processor.profiler
    ELSE IF is_first_collection /\ processor.self_profile THEN "perf-stat-self-profile"
    ELSE "perf-stat"

EmptyBucket == [stats |-> EmptyStats, profile |-> "None"]

EmptyBuckets ==
    [clean_stats |-> EmptyBucket, base_incr_stats |-> EmptyBucket,
     clean_incr_stats |-> EmptyBucket, patched_incr_stats |-> << >>]

NoCwd == [id |-> 0, applied |-> << >>]

NoLeaf == [bk |-> 0, i |-> 0, leaf |-> Leaf("None", 0)]

InitMeasureVars ==
    /\ processor \in Processors
    /\ build_kinds \in BuildKindLists
    /\ run_kinds \in RunKindLists
    /\ requested \in RequestedIterations
    /\ config \in [runs : ConfigRuns, disabled : BOOLEAN]
    /\ patches \in PatchLists
    /\ mpc = "start"
    /\ bk = 1
    /\ i = 0
    /\ leaf_pos = 0
    /\ dirs = 0
    /\ cwd = NoCwd
    /\ is_first_collection = TRUE
    /\ tries = 0
    /\ buckets = EmptyBuckets
    /\ upload = "None"
    /\ in_flight = 0
    /\ conn = {}
    /\ runs = << >>
    /\ output = NoOutputYet
    /\ err = "None"
    /\ ops = {}
    /\ leaf_spawned = FALSE
    /\ completed = {}
    /\ last_leaf = NoLeaf
    /\ exit_status = "None"
    /\ wrapper = "None"
    /\ iters_run = 0
    /\ different = "unset"
    /\ retry = "None"

\* return Err(..) from measure
Fail(reason) == mpc' = "error" /\ err' = reason

\* a panic: the process aborts and its memory is gone; what remains is what
\* it did outside: the processes it spawned, the temp dirs it created and
\* what the connection recorded
Panic(reason, spawned) ==
    /\ mpc' = "aborted"
    /\ err' = reason
    /\ ops' = ops \cup spawned
    /\ bk' = 0
    /\ i' = 0
    /\ leaf_pos' = 0
    /\ cwd' = NoCwd
    /\ is_first_collection' = TRUE
    /\ tries' = 0
    /\ buckets' = EmptyBuckets
    /\ upload' = "None"
    /\ in_flight' = 0
    /\ runs' = << >>
    /\ output' = NoOutputYet
    /\ leaf_spawned' = FALSE
    /\ completed' = {}
    /\ last_leaf' = NoLeaf
    /\ exit_status' = "None"
    /\ wrapper' = "None"
    /\ iters_run' = 0
    /\ different' = "unset"
    /\ retry' = "None"
    /\ UNCHANGED <<ivars, xvars, inputs, dirs, conn>>

MeasureStartIgnoresDisabled ==
    /\ mpc = "start"
    /\ mpc' = "prep_dir"
    /\ err' = err
    /\ UNCHANGED <<ivars, xvars, inputs, bk, i, leaf_pos, dirs, cwd, is_first_collection, tries, buckets,
                   upload, in_flight, conn, runs, output, ops, leaf_spawned, completed, last_leaf, exit_status, wrapper, iters_run,
                   different, retry>>

\* measure up to the loop over the build kinds
MeasureStart ==
    /\ mpc = "start"
    /\ IF config.disabled
       THEN Fail("disabled benchmark")
       ELSE mpc' = "prep_dir" /\ err' = err
    /\ UNCHANGED <<ivars, xvars, inputs, bk, i, leaf_pos, dirs, cwd, is_first_collection, tries, buckets,
                   upload, in_flight, conn, runs, output, ops, leaf_spawned, completed, last_leaf, exit_status, wrapper, iters_run,
                   different, retry>>

\* let prep_dir = self.make_temp_dir(&self.path)?
MakePrepDir ==
    /\ mpc = "prep_dir"
    /\ ops' = ops \cup {"cp"}
    /\ \E copied \in BOOLEAN :
         IF copied
         THEN /\ dirs' = dirs + 1
              /\ mpc' = "prep_build"
              /\ err' = err
         ELSE /\ Fail("copying to tmp dir")
              /\ dirs' = dirs
    /\ UNCHANGED <<ivars, xvars, inputs, bk, i, leaf_pos, cwd, is_first_collection, tries, buckets, upload, in_flight,
                   conn, runs, output, leaf_spawned, completed, last_leaf, exit_status, wrapper, iters_run, different, retry>>

\* the outcomes of one pass of the loop of run_rustc after the legality
\* checks: get_pkgid panics, a command of touch_all or the toolchain command
\* fails in command_output, or the toolchain exits successfully
SpawnOutcomes == {"pkgid failed", "touch failed", "rustc failed", "exited"}

CommandOutputIgnoresStatus(outcome) == TRUE

\* command_output: Ok(output) only when the process exited successfully
command_output(outcome) == outcome = "exited"

SpawnedOps(outcome) ==
    IF outcome = "pkgid failed" THEN {"pkgid"}
    ELSE IF outcome = "touch failed" THEN {"pkgid", "touch"}
    ELSE {"pkgid", "touch", "rustc"}

\* the preparatory build: run_rustc without a processor, then
\* processor.start_first_collection()
PrepBuild ==
    /\ mpc = "prep_build"
    /\ \E outcome \in SpawnOutcomes :
         IF outcome = "pkgid failed"
         THEN Panic("failed to obtain pkgid", SpawnedOps(outcome))
         ELSE /\ ops' = ops \cup SpawnedOps(outcome)
              /\ IF command_output(outcome)
                 THEN mpc' = "iter_head" /\ err' = err /\ is_first_collection' = TRUE
                 ELSE Fail("expected success") /\ is_first_collection' = is_first_collection
              /\ i' = 0
              /\ iters_run' = 0
              /\ wrapper' = "None"
              /\ UNCHANGED <<ivars, xvars, inputs, bk, leaf_pos, dirs, cwd, tries, buckets, upload, in_flight, conn, runs,
                             output, leaf_spawned, completed, last_leaf, exit_status, different, retry>>

\* Processor::finished_first_collection: the new field and the answer
finished_first_collection ==
    IF processor.kind = "Measure" THEN TRUE
    ELSE IF processor.kind = "Bench"
    THEN (IF is_first_collection /\ processor.self_profile THEN "perf-stat-self-profile" ELSE "perf-stat")
            # "perf-stat"
    ELSE FALSE

ShouldBreakAtMostOne(n, answer) == n <= 1 /\ ~answer

\* if iterations == 1 && !different { break; }
ShouldBreak(n, answer) == n = 1 /\ ~answer

\* the head of `for i in 0..cmp::max(iterations, 2)`
IterHead ==
    /\ mpc = "iter_head"
    /\ IF i >= Max2(iterations, 2)
       THEN /\ mpc' = "finish"
            /\ UNCHANGED <<is_first_collection, different>>
       ELSE IF i = 1
       THEN /\ different' = IF finished_first_collection THEN "true" ELSE "false"
            /\ is_first_collection' = IF processor.kind = "Profile" THEN is_first_collection ELSE FALSE
            /\ mpc' = IF ShouldBreak(iterations, finished_first_collection) THEN "finish" ELSE "timing_dir"
       ELSE /\ mpc' = "timing_dir"
            /\ UNCHANGED <<is_first_collection, different>>
    /\ UNCHANGED <<ivars, xvars, inputs, bk, i, leaf_pos, dirs, cwd, tries, buckets, upload, in_flight, conn, runs, output,
                   err, ops, leaf_spawned, completed, last_leaf, exit_status, wrapper, iters_run, retry>>

\* where the body of the iteration continues after position p of the plan
Goto(p) ==
    IF p > Len(plan)
    THEN /\ mpc' = "iter_head"
         /\ i' = i + 1
         /\ leaf_pos' = 0
    ELSE /\ mpc' = IF plan[p].run_kind = "IncrPatched" THEN "patch" ELSE "leaf"
         /\ i' = i
         /\ leaf_pos' = p

\* let timing_dir = self.make_temp_dir(prep_dir.path())?
MakeTimingDir ==
    /\ mpc = "timing_dir"
    /\ ops' = ops \cup {"cp"}
    /\ \E copied \in BOOLEAN :
         IF copied
         THEN /\ dirs' = dirs + 1
              /\ cwd' = [id |-> dirs + 1, applied |-> << >>]
              /\ completed' = {}
              /\ iters_run' = iters_run + 1
              /\ leaf_spawned' = FALSE
              /\ Goto(1)
              /\ err' = err
         ELSE /\ Fail("copying to tmp dir")
              /\ UNCHANGED <<dirs, cwd, completed, iters_run, leaf_spawned, i, leaf_pos>>
    /\ UNCHANGED <<ivars, xvars, inputs, last_leaf, exit_status, wrapper, bk, is_first_collection, tries, buckets, upload, in_flight, conn, runs, output,
                   different, retry>>

\* patch.apply(cwd): an Err only when `patch` ran and failed
ApplyPatch ==
    /\ mpc = "patch"
    /\ \E outcome \in {"applied", "rejected", "not spawned"} :
         /\ ops' = IF outcome = "not spawned" THEN ops ELSE ops \cup {"patch"}
         /\ cwd' = IF outcome = "applied"
                   THEN [cwd EXCEPT !.applied = Append(@, patches[leaf.patch].name)]
                   ELSE cwd
         /\ IF outcome = "rejected" THEN Fail("could not execute patch")
            ELSE mpc' = "leaf" /\ err' = err
    /\ UNCHANGED <<ivars, xvars, inputs, bk, i, leaf_pos, dirs, is_first_collection, tries, buckets, upload, in_flight, conn,
                   runs, output, leaf_spawned, completed, last_leaf, exit_status, wrapper, iters_run, different, retry>>

\* what a pass of the loop of run_rustc leaves alone
RunRustcFrame ==
    UNCHANGED <<ivars, xvars, inputs, bk, i, leaf_pos, dirs, cwd, is_first_collection, tries, buckets, upload, in_flight,
                conn, runs, completed, iters_run, different, retry>>

RunRustcChecksLate ==
    /\ mpc = "leaf"
    /\ \E outcome \in SpawnOutcomes :
         IF outcome = "pkgid failed"
         THEN Panic("failed to obtain pkgid", SpawnedOps(outcome))
         ELSE /\ ops' = ops \cup SpawnedOps(outcome)
              /\ leaf_spawned' = TRUE
              /\ last_leaf' = [bk |-> bk, i |-> i, leaf |-> leaf]
              /\ exit_status' = outcome
              /\ wrapper' = profiler
              /\ IF ~command_output(outcome)
                 THEN Fail("expected success") /\ output' = output
                 ELSE IF ~is_build_kind_allowed(profiler, build_kind)
                 THEN Fail("this profiler doesn't support this build kind") /\ output' = output
                 ELSE IF ~is_run_kind_allowed(profiler, leaf.run_kind)
                 THEN Fail("this profiler doesn't support this run kind") /\ output' = output
                 ELSE /\ mpc' = "output"
                      /\ err' = err
                      /\ output' \in LeafOutputs(profiler)
              /\ RunRustcFrame

\* one pass of the loop of run_rustc with a processor, up to the exit of
\* the toolchain process
RunRustc ==
    /\ mpc = "leaf"
    /\ IF ~is_build_kind_allowed(profiler, build_kind)
       THEN /\ Fail("this profiler doesn't support this build kind")
            /\ UNCHANGED <<ops, output, leaf_spawned, last_leaf, exit_status, wrapper>>
            /\ RunRustcFrame
       ELSE IF ~is_run_kind_allowed(profiler, leaf.run_kind)
       THEN /\ Fail("this profiler doesn't support this run kind")
            /\ UNCHANGED <<ops, output, leaf_spawned, last_leaf, exit_status, wrapper>>
            /\ RunRustcFrame
       ELSE \E outcome \in SpawnOutcomes :
              IF outcome = "pkgid failed"
              THEN Panic("failed to obtain pkgid", SpawnedOps(outcome))
              ELSE /\ ops' = ops \cup SpawnedOps(outcome)
                   /\ leaf_spawned' = TRUE
                   /\ last_leaf' = [bk |-> bk, i |-> i, leaf |-> leaf]
                   /\ exit_status' = outcome
                   /\ wrapper' = profiler
                   /\ IF command_output(outcome)
                      THEN /\ mpc' = "output"
                           /\ err' = err
                           /\ output' \in LeafOutputs(profiler)
                      ELSE Fail("expected success") /\ output' = output
                   /\ RunRustcFrame

\* index of the bucket of the patch in patched_incr_stats, 0 if none
PatchEntry(list, patch) ==
    LET S == {k \in DOMAIN list : list[k].patch.name = patch.name}
    IN IF S = {} THEN 0 ELSE SetMin(S)

AccumulateLatestProfile(bucket, res) ==
    [stats |-> combine_with(bucket.stats, res.stats), profile |-> res.profile]

\* combine_with(stats); if profile.is_some() { .1 = profile }
Accumulate(bucket, res) ==
    [stats |-> combine_with(bucket.stats, res.stats),
     profile |-> IF res.profile # "None" THEN res.profile ELSE bucket.profile]

\* MeasureProcessor::process_output on a parsed output
MeasureBuckets(b, run_kind, patch, res) ==
    IF run_kind = "Full" THEN [b EXCEPT !.clean_stats = Accumulate(@, res)]
    ELSE IF run_kind = "IncrFull" THEN [b EXCEPT !.base_incr_stats = Accumulate(@, res)]
    ELSE IF run_kind = "IncrUnchanged" THEN [b EXCEPT !.clean_incr_stats = Accumulate(@, res)]
    ELSE LET k == PatchEntry(b.patched_incr_stats, patch)
         IN IF k # 0
            THEN [b EXCEPT !.patched_incr_stats[k].acc = Accumulate(@, res)]
            ELSE [b EXCEPT !.patched_incr_stats =
                     Append(@, [patch |-> patch, acc |-> [stats |-> res.stats, profile |-> res.profile]])]

\* the scenario BenchProcessor::process_output records the statistics under
DbScenario(l) ==
    IF l.run_kind = "Full" THEN "Empty"
    ELSE IF l.run_kind = "IncrFull" THEN "IncrementalEmpty"
    ELSE IF l.run_kind = "IncrUnchanged" THEN "IncrementalFresh"
    ELSE patches[l.patch].name

\* process_output answered Retry::No: run_rustc returns Ok(())
LeafDone ==
    /\ retry' = "No"
    /\ completed' = completed \cup {leaf}
    /\ leaf_spawned' = FALSE
    /\ Goto(leaf_pos + 1)
    /\ err' = err

LeafRetryNextLeaf ==
    /\ retry' = "Yes"
    /\ Goto(leaf_pos + 1)
    /\ UNCHANGED <<completed, leaf_spawned, err>>

\* process_output answered Retry::Yes: the loop of run_rustc goes around
LeafRetry ==
    /\ retry' = "Yes"
    /\ mpc' = "leaf"
    /\ UNCHANGED <<completed, leaf_spawned, i, leaf_pos, err>>

LeafFail(reason) ==
    /\ Fail(reason)
    /\ UNCHANGED <<retry, completed, leaf_spawned, i, leaf_pos>>

\* process_output takes the process::Output by value: it is gone when the
\* call returns; the rest is what the call and the match on its answer
\* leave alone
ProcessOutputFrame ==
    /\ output' = NoOutputYet
    /\ UNCHANGED <<ivars, xvars, inputs, last_leaf, exit_status, wrapper, bk, dirs, cwd, is_first_collection, runs, ops,
                   iters_run, different>>

MeasureProcessOutput ==
    /\ processor.kind = "Measure"
    /\ LET res == process_perf_stat_output(output)
       IN IF res.tag = "Ok"
          THEN /\ buckets' = MeasureBuckets(buckets, leaf.run_kind,
                                            IF leaf.patch = 0 THEN PatchFiles[1] ELSE patches[leaf.patch], res)
               /\ LeafDone
               /\ UNCHANGED <<tries, upload, in_flight, conn>>
               /\ ProcessOutputFrame
          ELSE IF res.tag = "NoOutput"
          THEN /\ LeafRetry
               /\ UNCHANGED <<buckets, tries, upload, in_flight, conn>>
               /\ ProcessOutputFrame
          ELSE Panic("process_perf_stat_output failed", {})

AfterNoWait(handle, n) == n

\* if let Some(u) = self.upload.take() { u.wait(); }: the uploads in flight
\* once the previous upload, if there is one, has been waited for
AfterWait(handle, n) == IF handle = "Some" THEN 0 ELSE n

\* an upload in flight finishes on its own, whatever the collector is doing
UploadFinishes ==
    /\ in_flight > 0
    /\ in_flight' = in_flight - 1
    /\ UNCHANGED <<ivars, xvars, inputs, mpc, bk, i, leaf_pos, dirs, cwd, is_first_collection, tries,
                   buckets, upload, conn, runs, output, err, ops, leaf_spawned, completed, last_leaf, exit_status, wrapper,
                   iters_run, different, retry>>

TriesLeftSix(t) == t < 6

\* if self.tries < 5
TriesLeft(t) == t < 5

BenchProcessOutputResetsTries ==
    /\ processor.kind = "Bench"
    /\ LET res == process_perf_stat_output(output)
       IN IF res.tag = "Ok"
          THEN /\ conn' = conn \cup {[profile |-> build_kind, scenario |-> DbScenario(leaf)]}
               /\ upload' = IF res.profile # "None" /\ processor.upload_to_s3 THEN "Some" ELSE upload
               /\ in_flight' = IF res.profile # "None" /\ processor.upload_to_s3
                                THEN AfterWait(upload, in_flight) + 1
                                ELSE in_flight
               /\ LeafDone
               /\ tries' = 0
               /\ UNCHANGED buckets
               /\ ProcessOutputFrame
          ELSE IF res.tag = "NoOutput"
          THEN IF TriesLeft(tries)
               THEN /\ tries' = (tries + 1) % 256
                    /\ LeafRetry
                    /\ UNCHANGED <<conn, upload, in_flight, buckets>>
                    /\ ProcessOutputFrame
               ELSE Panic("failed to collect statistics after 5 tries", {})
          ELSE Panic("process_perf_stat_output failed", {})

\* BenchProcessor::process_output
BenchProcessOutput ==
    /\ processor.kind = "Bench"
    /\ LET res == process_perf_stat_output(output)
       IN IF res.tag = "Ok"
          THEN /\ conn' = conn \cup {[profile |-> build_kind, scenario |-> DbScenario(leaf)]}
               /\ upload' = IF res.profile # "None" /\ processor.upload_to_s3 THEN "Some" ELSE upload
               /\ in_flight' = IF res.profile # "None" /\ processor.upload_to_s3
                                THEN AfterWait(upload, in_flight) + 1
                                ELSE in_flight
               /\ LeafDone
               /\ UNCHANGED <<tries, buckets>>
               /\ ProcessOutputFrame
          ELSE IF res.tag = "NoOutput"
          THEN IF TriesLeft(tries)
               THEN /\ tries' = (tries + 1) % 256
                    /\ LeafRetry
                    /\ UNCHANGED <<conn, upload, in_flight, buckets>>
                    /\ ProcessOutputFrame
               ELSE Panic("failed to collect statistics after 5 tries", {})
          ELSE Panic("process_perf_stat_output failed", {})

\* ProfileProcessor::process_output: moves and post-processes the files of
\* the tool; any filesystem failure is an Err
ProfileProcessOutput ==
    /\ processor.kind = "Profile"
    /\ IF processor.profiler \in {"perf-stat", "perf-stat-self-profile"}
       THEN Panic("unexpected profiler", {})
       ELSE /\ \E fs_ok \in BOOLEAN :
                 IF fs_ok THEN LeafDone ELSE LeafFail("filesystem error")
            /\ UNCHANGED <<buckets, tries, upload, in_flight, conn>>
            /\ ProcessOutputFrame

\* processor.process_output(&data, output) and the match on its answer
ProcessOutput ==
    /\ mpc = "output"
    /\ \/ MeasureProcessOutput
       \/ BenchProcessOutput
       \/ ProfileProcessOutput

ProcessStatsUntagged(kind, state, stats, prof) ==
    [stats |-> stats, self_profile |-> prof, check |-> FALSE, release |-> FALSE, state |-> state]

\* process_stats
process_stats(kind, state, stats, prof) ==
    [stats |-> stats, self_profile |-> prof, check |-> kind = "Check", release |-> kind = "Opt",
     state |-> state]

\* MeasureProcessor::finish_build_kind: the runs it pushes
FlushedRuns(b, kind) ==
    (IF b.clean_stats.stats # EmptyStats
     THEN <<process_stats(kind, "Clean", b.clean_stats.stats, b.clean_stats.profile)>> ELSE << >>)
    \o (IF b.base_incr_stats.stats # EmptyStats
        THEN <<process_stats(kind, "IncrementalStart", b.base_incr_stats.stats, b.base_incr_stats.profile)>>
        ELSE << >>)
    \o (IF b.clean_incr_stats.stats # EmptyStats
        THEN <<process_stats(kind, "IncrementalClean", b.clean_incr_stats.stats, b.clean_incr_stats.profile)>>
        ELSE << >>)
    \o [k \in 1..Len(b.patched_incr_stats) |->
          process_stats(kind, b.patched_incr_stats[k].patch.name,
                        b.patched_incr_stats[k].acc.stats, b.patched_incr_stats[k].acc.profile)]

FinishBuildKindKeepsPatched ==
    /\ mpc = "finish"
    /\ IF processor.kind = "Measure"
       THEN /\ runs' = runs \o FlushedRuns(buckets, build_kind)
            /\ buckets' = [EmptyBuckets EXCEPT !.patched_incr_stats = buckets.patched_incr_stats]
       ELSE UNCHANGED <<runs, buckets>>
    /\ IF bk < Len(build_kinds)
       THEN bk' = bk + 1 /\ mpc' = "prep_dir"
       ELSE bk' = bk /\ mpc' = "done"
    /\ UNCHANGED <<ivars, xvars, inputs, i, leaf_pos, dirs, cwd, is_first_collection, tries, upload, in_flight, conn, output,
                   err, ops, leaf_spawned, completed, last_leaf, exit_status, wrapper, iters_run, different, retry>>

\* processor.finish_build_kind(build_kind, &mut runs) and the next build kind
FinishBuildKind ==
    /\ mpc = "finish"
    /\ IF processor.kind = "Measure"
       THEN /\ runs' = runs \o FlushedRuns(buckets, build_kind)
            /\ buckets' = EmptyBuckets
       ELSE UNCHANGED <<runs, buckets>>
    /\ IF bk < Len(build_kinds)
       THEN bk' = bk + 1 /\ mpc' = "prep_dir"
       ELSE bk' = bk /\ mpc' = "done"
    /\ UNCHANGED <<ivars, xvars, inputs, i, leaf_pos, dirs, cwd, is_first_collection, tries, upload, in_flight, conn, output,
                   err, ops, leaf_spawned, completed, last_leaf, exit_status, wrapper, iters_run, different, retry>>

(***************************************************************************)
(* Specifications.  Each one runs one part of the program and leaves the   *)
(* variables of the other parts at their initial values.                   *)
(***************************************************************************)
IdleInterp ==
    /\ data_real = << >>
    /\ data_next = << >>
    /\ interpolated = << >>
    /\ bench_order = << >>
    /\ commit_idx = 0
    /\ bench_pos = 0
    /\ ipc = "idle"
    /\ fills = {}

IdleMeasure ==
    /\ processor = MeasureProcessor(FALSE)
    /\ build_kinds = << >>
    /\ run_kinds = << >>
    /\ requested = 0
    /\ config = [runs |-> 0, disabled |-> FALSE]
    /\ patches = << >>
    /\ mpc = "idle"
    /\ bk = 0
    /\ i = 0
    /\ leaf_pos = 0
    /\ dirs = 0
    /\ cwd = NoCwd
    /\ is_first_collection = TRUE
    /\ tries = 0
    /\ buckets = EmptyBuckets
    /\ upload = "None"
    /\ in_flight = 0
    /\ conn = {}
    /\ runs = << >>
    /\ output = NoOutputYet
    /\ err = "None"
    /\ ops = {}
    /\ leaf_spawned = FALSE
    /\ completed = {}
    /\ last_leaf = NoLeaf
    /\ exit_status = "None"
    /\ wrapper = "None"
    /\ iters_run = 0
    /\ different = "unset"
    /\ retry = "None"

NotParsed == [tag |-> "None", stats |-> EmptyStats, profile |-> "None"]

IdleParser ==
    /\ stdout = << >>
    /\ parsed = NotParsed
    /\ ppc = "idle"

EmptyMap == << >>

IdleBench ==
    /\ benchmarks = << >>
    /\ args = [call_home |-> FALSE, self_profile |-> FALSE, build_kinds |-> << >>]
    /\ existing_data = [loaded |-> FALSE, benchmarks |-> EmptyMap]
    /\ results = EmptyMap
    /\ bidx = 0
    /\ bpc = "idle"
    /\ home = << >>
    /\ measured = << >>
    /\ spawned_for = EmptyMap

IdlePatch ==
    /\ file_names = << >>
    /\ run_flags = << >>
    /\ built = << >>
    /\ run_ids = << >>
    /\ npc = "idle"

NoAnswer == [subcommand |-> "None", build_kind_allowed |-> FALSE, run_kind_allowed |-> FALSE]

NotResolved == [result |-> FromNameErr("None", "None"), name |-> "None"]

IdleTool ==
    /\ tool_query = [profiler |-> "None", build_kind |-> "None", run_kind |-> "None"]
    /\ tool_answer = NoAnswer
    /\ tpc = "idle"
    /\ name_arg = "None"
    /\ resolved = NotResolved

\* largest number of push requests
MaxRequests == 3

Requests == 1..MaxRequests

IdleServer ==
    /\ updating = FALSE
    /\ server_data = 0
    /\ rpc = [r \in Requests |-> "idle"]
    /\ response = [r \in Requests |-> "None"]

vars == <<ivars, mvars, xvars>>

(***************************************************************************)
(* InputData::new: the interpolation pass over the loaded commits.         *)
(***************************************************************************)
InitInterpVars ==
    /\ data_real \in Datasets
    /\ data_next = data_real
    /\ interpolated = << >>
    /\ bench_order \in Orderings(current_benchmarks(data_real))
    /\ commit_idx = 1
    /\ bench_pos = 1
    /\ ipc = IF bench_order = <<>> THEN "finish" ELSE "bench"
    /\ fills = {}

MakeMutInPlace(real, next, c, value) ==
    [real |-> [real EXCEPT ![c] = value], next |-> [next EXCEPT ![c] = value]]

\* Arc::make_mut on an element of data_next: its allocation is shared with
\* data_real (data.clone() clones the Arcs), so the element is cloned and
\* the write goes to the clone
make_mut(real, next, c, value) ==
    [real |-> real, next |-> [next EXCEPT ![c] = value]]

\* advance the two nested loops of InputData::new
NextPosition ==
    IF bench_pos < Len(bench_order)
    THEN /\ bench_pos' = bench_pos + 1
         /\ commit_idx' = commit_idx
         /\ ipc' = "bench"
    ELSE /\ bench_pos' = 1
         /\ commit_idx' = commit_idx + 1
         /\ ipc' = IF commit_idx < Len(data_real) THEN "bench" ELSE "finish"

\* loop body, first half: skip try commits, fill a missing benchmark
FillBenchmarkStep ==
    /\ ipc = "bench"
    /\ LET b == bench_order[bench_pos]
           cd == data_next[commit_idx]
       IN IF is_try(cd.commit)
          THEN /\ NextPosition
               /\ UNCHANGED <<data_real, data_next, interpolated, fills>>
          ELSE IF cd.benchmarks[b].tag # "ok"
          THEN LET res == fill_benchmark_data(data_real, b, commit_idx)
                   w == make_mut(data_real, data_next, commit_idx,
                                 [cd EXCEPT !.benchmarks[b] = Ok(res.runs)])
               IN /\ interpolated' =
                        IF res.filled THEN Push(interpolated, cd.commit.sha, Interpolation(b, "None"))
                        ELSE Entry(interpolated, cd.commit.sha)
                  /\ data_next' = IF res.filled THEN w.next ELSE data_next
                  /\ data_real' = IF res.filled THEN w.real ELSE data_real
                  /\ fills' = IF res.filled THEN fills \cup {res.fill} ELSE fills
                  /\ ipc' = "runs"
                  /\ UNCHANGED <<commit_idx, bench_pos>>
          ELSE /\ ipc' = "runs"
               /\ UNCHANGED <<data_real, data_next, interpolated, commit_idx, bench_pos, fills>>
    /\ UNCHANGED <<bench_order, mvars, xvars>>

\* loop body, second half: fill the runs missing from a present benchmark
FillRunsStep ==
    /\ ipc = "runs"
    /\ LET b == bench_order[bench_pos]
           cd == data_next[commit_idx]
           missing == IF IsOk(cd, b) /\ HasKnownRuns(data_real, b)
                      THEN {r \in known_runs(data_real, b) : ~HasRun(cd, b, r)}
                      ELSE {}
       IN IF missing = {}
          THEN /\ NextPosition
               /\ UNCHANGED <<data_real, data_next, interpolated, fills>>
          ELSE \E missing_runs \in Orderings(missing) :
                 LET res == fill_benchmark_runs(data_real, b, commit_idx, missing_runs)
                     good == \A k \in 1..Len(res) :
                                /\ ~res[k].panic
                                /\ FillRunAsserts(data_real, b, commit_idx, missing_runs[k])
                     w == make_mut(data_real, data_next, commit_idx,
                                   [cd EXCEPT !.benchmarks[b].runs = @ \o [k \in 1..Len(res) |-> res[k].run]])
                 IN IF good
                    THEN /\ data_next' = w.next
                         /\ data_real' = w.real
                         /\ interpolated' =
                               [Entry(interpolated, cd.commit.sha) EXCEPT ![cd.commit.sha] =
                                   @ \o [k \in 1..Len(res) |-> Interpolation(b, missing_runs[k])]]
                         /\ fills' = fills \cup {res[k].fill : k \in 1..Len(res)}
                         /\ NextPosition
                    ELSE /\ ipc' = "panicked"
                         /\ UNCHANGED <<data_real, data_next, interpolated, commit_idx, bench_pos, fills>>
    /\ UNCHANGED <<bench_order, mvars, xvars>>

FinishInterpolationKeepsEmpty ==
    /\ ipc = "finish"
    /\ ipc' = "done"
    /\ UNCHANGED <<data_real, data_next, interpolated, bench_order, commit_idx, bench_pos, fills, mvars, xvars>>

\* drop the keys of `interpolated` that map to an empty list
FinishInterpolation ==
    /\ ipc = "finish"
    /\ interpolated' = [sha \in {s \in DOMAIN interpolated : interpolated[s] # <<>>} |-> interpolated[sha]]
    /\ ipc' = "done"
    /\ UNCHANGED <<data_real, data_next, bench_order, commit_idx, bench_pos, fills, mvars, xvars>>

InitInterp == InitInterpVars /\ IdleMeasure /\ IdleParser /\ IdleBench /\ IdlePatch /\ IdleTool /\ IdleServer

NextInterp ==
    \/ FillBenchmarkStep
    \/ FillRunsStep
    \/ FinishInterpolation

SpecInterp == InitInterp /\ [][NextInterp]_vars

InitMeasure == InitMeasureVars /\ IdleInterp /\ IdleParser /\ IdleBench /\ IdlePatch /\ IdleTool /\ IdleServer

NextMeasure ==
    \/ MeasureStart
    \/ MakePrepDir
    \/ PrepBuild
    \/ IterHead
    \/ MakeTimingDir
    \/ ApplyPatch
    \/ RunRustc
    \/ ProcessOutput
    \/ FinishBuildKind
    \/ UploadFinishes

SpecMeasure == InitMeasure /\ [][NextMeasure]_vars

\* one benchmark measured once by each processor; the collector is a single
\* thread, so a step that can be taken is eventually taken, and the leaf
\* processes are taken to exit
InitRetry ==
    /\ InitMeasure
    /\ build_kinds = <<"Debug">>
    /\ run_kinds \in {<<"Full">>, AllRunKinds}
    /\ requested = 1
    /\ config = [runs |-> default_runs, disabled |-> FALSE]
    /\ patches = SubSeq(PatchFiles, 1, MaxPatches)

FairSpecMeasure == InitRetry /\ [][NextMeasure]_vars /\ WF_vars(NextMeasure)

(***************************************************************************)
(* bench_commit: the loop over the benchmarks of one commit.  Each call of *)
(* measure runs the steps of the runner above.                             *)
(***************************************************************************)
\* largest number of benchmarks of one call of bench_commit
MaxBenchmarks == 2

BenchmarkDirs == <<"helloworld", "regex", "syn", "html5ever">>

\* entries of the stored data of the commit
StoredOk ==
    [tag |-> "Ok", runs |-> <<process_stats("Debug", "Clean", [n \in {"max-rss"} |-> 1], "None")>>]

StoredErr == [tag |-> "Err", msg |-> "stored error"]

\* the benchmark lists: the first n names, each benchmark disabled or not
BenchmarkLists ==
    UNION {{[k \in 1..n |-> [name |-> BenchmarkDirs[k],
                              config |-> [runs |-> default_runs, disabled |-> d[k]],
                              patches |-> << >>]] : d \in [1..n -> BOOLEAN]}
           : n \in 1..MaxBenchmarks}

\* repo.and_then(|r| r.load_commit_data(..).ok()): nothing (no repo, or the
\* load failed), or the entries stored for the commit, which can name
\* benchmarks that are not requested
StoredData ==
    {[loaded |-> FALSE, benchmarks |-> EmptyMap]} \cup
    {[loaded |-> TRUE, benchmarks |-> f] :
        f \in UNION {[S -> {StoredOk, StoredErr}] :
                        S \in SUBSET {BenchmarkDirs[k] : k \in 1..(MaxBenchmarks + 1)}}}

Names(list) == {list[k].name : k \in DOMAIN list}

Put(map, key, value) == [k \in (DOMAIN map) \cup {key} |-> IF k = key THEN value ELSE map[k]]

InitBenchVars ==
    /\ benchmarks \in BenchmarkLists
    /\ args \in [call_home : BOOLEAN, self_profile : BOOLEAN,
                 build_kinds : {<<"Debug">>, <<"Check", "Debug">>}]
    /\ existing_data \in StoredData
    /\ results = EmptyMap
    /\ bidx = 0
    /\ bpc = "start"
    /\ home = << >>
    /\ measured = << >>
    /\ spawned_for = EmptyMap

\* the measure variables when no call of measure is in progress
NoMeasure ==
    /\ processor' = MeasureProcessor(FALSE)
    /\ build_kinds' = << >>
    /\ run_kinds' = << >>
    /\ requested' = 0
    /\ config' = [runs |-> 0, disabled |-> FALSE]
    /\ patches' = << >>
    /\ mpc' = "idle"
    /\ bk' = 0
    /\ i' = 0
    /\ leaf_pos' = 0
    /\ dirs' = 0
    /\ cwd' = NoCwd
    /\ is_first_collection' = TRUE
    /\ tries' = 0
    /\ buckets' = EmptyBuckets
    /\ upload' = "None"
    /\ in_flight' = 0
    /\ conn' = {}
    /\ runs' = << >>
    /\ output' = NoOutputYet
    /\ err' = "None"
    /\ ops' = {}
    /\ leaf_spawned' = FALSE
    /\ completed' = {}
    /\ last_leaf' = NoLeaf
    /\ exit_status' = "None"
    /\ wrapper' = "None"
    /\ iters_run' = 0
    /\ different' = "unset"
    /\ retry' = "None"

\* benchmark.measure(&mut processor, build_kinds, run_kinds, compiler, iterations)
\* is entered with a new MeasureProcessor
CallMeasure(benchmark) ==
    /\ processor' = MeasureProcessor(args.self_profile)
    /\ build_kinds' = args.build_kinds
    /\ run_kinds' = <<"Full">>
    /\ requested' = 1
    /\ config' = benchmark.config
    /\ patches' = benchmark.patches
    /\ mpc' = "start"
    /\ bk' = 1
    /\ i' = 0
    /\ leaf_pos' = 0
    /\ dirs' = 0
    /\ cwd' = NoCwd
    /\ is_first_collection' = TRUE
    /\ tries' = 0
    /\ buckets' = EmptyBuckets
    /\ upload' = "None"
    /\ in_flight' = 0
    /\ conn' = {}
    /\ runs' = << >>
    /\ output' = NoOutputYet
    /\ err' = "None"
    /\ ops' = {}
    /\ leaf_spawned' = FALSE
    /\ completed' = {}
    /\ last_leaf' = NoLeaf
    /\ exit_status' = "None"
    /\ wrapper' = "None"
    /\ iters_run' = 0
    /\ different' = "unset"
    /\ retry' = "None"

MeasureResultKeepsFlushed ==
    IF mpc = "done" \/ (mpc = "error" /\ runs # << >>)
    THEN [tag |-> "Ok", runs |-> runs]
    ELSE [tag |-> "Err", msg |-> err]

\* what measure returned, as bench_commit stores it: Ok(runs) at its end,
\* the error of the `?` or bail! that left it otherwise (the local `runs`
\* is dropped)
measure_result ==
    IF mpc = "done"
    THEN [tag |-> "Ok", runs |-> runs]
    ELSE [tag |-> "Err", msg |-> err]

ResumedOnlyOk ==
    SelectSeq(benchmarks, LAMBDA b : /\ existing_data.loaded
                                     /\ b.name \in DOMAIN existing_data.benchmarks
                                     /\ existing_data.benchmarks[b.name].tag = "Ok")

\* the requested benchmarks that have a stored entry, in list order
Resumed ==
    SelectSeq(benchmarks, LAMBDA b : existing_data.loaded /\ b.name \in DOMAIN existing_data.benchmarks)

\* bench_commit up to the loop over the benchmarks: the notification, the
\* stored entries of the requested benchmarks, the probe for `summarize`
BenchCommitStart ==
    /\ bpc = "start"
    /\ results' = [n \in Names(Resumed) |-> existing_data.benchmarks[n]]
    /\ home' = IF args.call_home
               THEN <<[request |-> "BenchmarkCommit", benchmark |-> "all"]>>
                    \o [k \in 1..Len(Resumed) |-> [request |-> "BenchmarkDone", benchmark |-> Resumed[k].name]]
               ELSE home
    /\ \E has_measureme \in BOOLEAN :
         /\ bpc' = IF args.self_profile /\ ~has_measureme THEN "aborted" ELSE "loop"
         /\ spawned_for' = [n \in {"summarize"} \cap (IF has_measureme THEN {"summarize"} ELSE {}) |-> {"summarize"}]
    /\ bidx' = 1
    /\ UNCHANGED <<benchmarks, args, existing_data, measured, ivars, mvars, pvars, nvars, tvars, svars>>

\* the head of the loop: skip a benchmark that has an entry, otherwise
\* build its MeasureProcessor (which probes for `perf`) and call measure
NextBenchmark ==
    /\ bpc = "loop"
    /\ IF bidx > Len(benchmarks)
       THEN /\ bpc' = "done"
            /\ UNCHANGED <<bidx, measured, spawned_for, mvars>>
       ELSE IF benchmarks[bidx].name \in DOMAIN results
       THEN /\ bidx' = bidx + 1
            /\ UNCHANGED <<bpc, measured, spawned_for, mvars>>
       ELSE \E has_perf \in BOOLEAN :
              IF has_perf
              THEN /\ spawned_for' = Put(spawned_for, benchmarks[bidx].name, {"perf"})
                   /\ measured' = Append(measured, benchmarks[bidx].name)
                   /\ CallMeasure(benchmarks[bidx])
                   /\ bpc' = "measuring"
                   /\ bidx' = bidx
              ELSE /\ bpc' = "aborted"
                   /\ UNCHANGED <<bidx, measured, spawned_for, mvars>>
    /\ UNCHANGED <<benchmarks, args, existing_data, results, home, ivars, pvars, nvars, tvars, svars>>

RecordResultStopsOnError ==
    /\ bpc = "measuring"
    /\ mpc \in {"done", "error"}
    /\ results' = Put(results, benchmarks[bidx].name, measure_result)
    /\ home' = IF args.call_home
               THEN Append(home, [request |-> "BenchmarkDone", benchmark |-> benchmarks[bidx].name])
               ELSE home
    /\ spawned_for' = Put(spawned_for, benchmarks[bidx].name, spawned_for[benchmarks[bidx].name] \cup ops)
    /\ bidx' = IF mpc = "error" THEN Len(benchmarks) + 1 ELSE bidx + 1
    /\ bpc' = "loop"
    /\ NoMeasure
    /\ UNCHANGED <<benchmarks, args, existing_data, measured, ivars, pvars, nvars, tvars, svars>>

\* measure returned: the entry of the benchmark
RecordResult ==
    /\ bpc = "measuring"
    /\ mpc \in {"done", "error"}
    /\ results' = Put(results, benchmarks[bidx].name, measure_result)
    /\ home' = IF args.call_home
               THEN Append(home, [request |-> "BenchmarkDone", benchmark |-> benchmarks[bidx].name])
               ELSE home
    /\ spawned_for' = Put(spawned_for, benchmarks[bidx].name, spawned_for[benchmarks[bidx].name] \cup ops)
    /\ bidx' = bidx + 1
    /\ bpc' = "loop"
    /\ NoMeasure
    /\ UNCHANGED <<benchmarks, args, existing_data, measured, ivars, pvars, nvars, tvars, svars>>

InitBench == InitBenchVars /\ IdleMeasure /\ IdleInterp /\ IdleParser /\ IdlePatch /\ IdleTool /\ IdleServer

NextBench ==
    \/ BenchCommitStart
    \/ NextBenchmark
    \/ RecordResult
    \/ MeasureStart
    \/ MakePrepDir
    \/ PrepBuild
    \/ IterHead
    \/ MakeTimingDir
    \/ RunRustc
    \/ ProcessOutput
    \/ FinishBuildKind

SpecBench == InitBench /\ [][NextBench]_vars

(***************************************************************************)
(* process_perf_stat_output on its own, over every output of at most       *)
(* MaxLines lines.                                                         *)
(***************************************************************************)
InitParser ==
    /\ stdout \in ParserOutputs
    /\ parsed = NotParsed
    /\ ppc = "parse"
    /\ IdleInterp
    /\ IdleMeasure
    /\ IdleBench
    /\ IdlePatch /\ IdleTool /\ IdleServer

ParseOutput ==
    /\ ppc = "parse"
    /\ parsed' = process_perf_stat_output(stdout)
    /\ ppc' = "parsed"
    /\ UNCHANGED <<stdout, ivars, mvars, cvars, nvars, tvars, svars>>

NextParser == ParseOutput

SpecParser == InitParser /\ [][NextParser]_vars

(***************************************************************************)
(* Patch::new and Run::id on their own: two patch files are made Patches   *)
(* and two runs patched with them are given their ids.                     *)
(***************************************************************************)
PatchFileNames ==
    {File_0_println, File_8_println, File_10_println, File_2_dummy_fn, File_3_new_row,
     File_4_a_patch_b, File_x_println}

RunFlags ==
    {[check |-> FALSE, release |-> FALSE], [check |-> TRUE, release |-> FALSE],
     [check |-> FALSE, release |-> TRUE]}

InitPatch ==
    /\ file_names \in PatchFileNames \X PatchFileNames
    /\ run_flags \in RunFlags \X RunFlags
    /\ built = << >>
    /\ run_ids = << >>
    /\ npc = "new"
    /\ IdleInterp
    /\ IdleMeasure
    /\ IdleParser
    /\ IdleBench
    /\ IdleTool /\ IdleServer

\* Patch::new on the next file name
NewPatch ==
    /\ npc = "new"
    /\ LET res == Patch_new(file_names[Len(built) + 1])
       IN IF res.panic
          THEN /\ npc' = "panicked"
               /\ UNCHANGED built
          ELSE /\ built' = Append(built, res.patch)
               /\ npc' = IF Len(built) + 1 = Len(file_names) THEN "ids" ELSE "new"
    /\ UNCHANGED <<file_names, run_flags, run_ids, ivars, mvars, pvars, cvars, tvars, svars>>

\* Run::id of the runs whose state is IncrementalPatched of each patch
MakeRunIds ==
    /\ npc = "ids"
    /\ run_ids' = [k \in DOMAIN built |->
                      Run_id([check |-> run_flags[k].check, release |-> run_flags[k].release,
                              state |-> IncrementalPatched(built[k])])]
    /\ npc' = "done"
    /\ UNCHANGED <<file_names, run_flags, built, ivars, mvars, pvars, cvars, tvars, svars>>

NextPatch ==
    \/ NewPatch
    \/ MakeRunIds

SpecPatch == InitPatch /\ [][NextPatch]_vars

(***************************************************************************)
(* The three functions of Profiler on their own.                           *)
(***************************************************************************)
\* the names of the twelve tools, and strings that name no tool
ToolNames ==
    Profilers \cup {"", "perf", "Cachegrind", "llvm_lines", "xperf-stat", "self-profile "}

InitTool ==
    /\ tool_query \in [profiler : Profilers, build_kind : BuildKinds, run_kind : RunKinds]
    /\ tool_answer = NoAnswer
    /\ tpc = "ask"
    /\ name_arg \in ToolNames
    /\ resolved = NotResolved
    /\ IdleInterp
    /\ IdleMeasure
    /\ IdleParser
    /\ IdleBench
    /\ IdlePatch
    /\ IdleServer

\* subcommand, is_build_kind_allowed and is_run_kind_allowed of the profiler
AskProfiler ==
    /\ tpc = "ask"
    /\ tool_answer' =
          [subcommand |-> subcommand(tool_query.profiler),
           build_kind_allowed |-> is_build_kind_allowed(tool_query.profiler, tool_query.build_kind),
           run_kind_allowed |-> is_run_kind_allowed(tool_query.profiler, tool_query.run_kind)]
    /\ tpc' = "answered"
    /\ UNCHANGED <<tool_query, name_arg, resolved, ivars, mvars, pvars, cvars, nvars, svars>>

\* Profiler::from_name on the given string, then name() of the tool found
ResolveName ==
    /\ name_arg # "None"
    /\ resolved = NotResolved
    /\ LET r == from_name(name_arg)
       IN resolved' = [result |-> r,
                       name |-> IF r.tag = "Ok" THEN name_of(r.profiler) ELSE "None"]
    /\ UNCHANGED <<tool_query, tool_answer, tpc, name_arg, ivars, mvars, pvars, cvars, nvars, svars>>

NextTool == AskProfiler \/ ResolveName

SpecTool == InitTool /\ [][NextTool]_vars

(***************************************************************************)
(* The server: push requests and the reload of the dataset.                *)
(***************************************************************************)
InitServer ==
    /\ updating = FALSE
    /\ server_data = 0
    /\ rpc = [r \in Requests |-> "new"]
    /\ response = [r \in Requests |-> "None"]
    /\ IdleInterp
    /\ IdleMeasure
    /\ IdleParser
    /\ IdleBench
    /\ IdlePatch
    /\ IdleTool

ServerFrame == UNCHANGED <<ivars, mvars, pvars, cvars, nvars, tvars>>

HandlePushNoSwap(r) ==
    /\ rpc[r] = "new"
    /\ updating' = TRUE
    /\ rpc' = [rpc EXCEPT ![r] = "repo"]
    /\ UNCHANGED <<server_data, response>>
    /\ ServerFrame

\* handle_push up to the spawn: compare_and_swap(false, true) is one atomic
\* step; if the flag was set the request is answered at once
HandlePush(r) ==
    /\ rpc[r] = "new"
    /\ IF updating
       THEN /\ rpc' = [rpc EXCEPT ![r] = "done"]
            /\ response' = [response EXCEPT ![r] = "Already updating!"]
            /\ UNCHANGED updating
       ELSE /\ updating' = TRUE
            /\ rpc' = [rpc EXCEPT ![r] = "repo"]
            /\ UNCHANGED response
    /\ UNCHANGED server_data
    /\ ServerFrame

\* a step of the closure that ends with `?`: it goes on or returns Err
Try(r, from, to) ==
    /\ rpc[r] = from
    /\ \E ok \in BOOLEAN : rpc' = [rpc EXCEPT ![r] = IF ok THEN to ELSE "failed"]
    /\ UNCHANGED <<updating, server_data, response>>
    /\ ServerFrame

\* let repo_path = get_repo_path()?
GetRepoPath(r) == Try(r, "repo", "fetch")

\* git::update_repo(&repo_path)?
UpdateRepo(r) == Try(r, "fetch", "load")

\* let new_data = InputData::from_fs(&repo_path)?: Ok, Err, or a panic of
\* the loader (its expect, unwrap and assert calls), which ends the closure
\* without a value
FromFs(r) ==
    /\ rpc[r] = "load"
    /\ \E outcome \in {"Ok", "Err", "panic"} :
         rpc' = [rpc EXCEPT ![r] = CASE outcome = "Ok" -> "write"
                                     [] outcome = "Err" -> "failed"
                                     [] outcome = "panic" -> "panicked"]
    /\ UNCHANGED <<updating, server_data, response>>
    /\ ServerFrame

\* let mut data = rwlock.write().unwrap(); *data = new_data
WriteData(r) ==
    /\ rpc[r] = "write"
    /\ server_data' = r
    /\ rpc' = [rpc EXCEPT ![r] = "store"]
    /\ UNCHANGED <<updating, response>>
    /\ ServerFrame

\* updating.store(false); Ok(..), and the response made by `map`
StoreAndReturn(r) ==
    /\ rpc[r] = "store"
    /\ updating' = FALSE
    /\ rpc' = [rpc EXCEPT ![r] = "done"]
    /\ response' = [response EXCEPT ![r] = "Successfully updated from filesystem"]
    /\ UNCHANGED server_data
    /\ ServerFrame

\* or_else: updating.store(false) and the response of the error
OrElse(r) ==
    /\ rpc[r] = "failed"
    /\ updating' = FALSE
    /\ rpc' = [rpc EXCEPT ![r] = "done"]
    /\ response' = [response EXCEPT ![r] = "Internal Server Error"]
    /\ UNCHANGED server_data
    /\ ServerFrame

\* the steps of one request
NextServerOf(r) ==
    \/ HandlePush(r)
    \/ GetRepoPath(r)
    \/ UpdateRepo(r)
    \/ FromFs(r)
    \/ WriteData(r)
    \/ StoreAndReturn(r)
    \/ OrElse(r)

NextServer == \E r \in Requests : NextServerOf(r)

SpecServer == InitServer /\ [][NextServer]_vars

\* every request that can take a step eventually takes one
FairSpecServer == SpecServer /\ \A r \in Requests : WF_vars(NextServerOf(r))

(***************************************************************************)
(* Properties of the interpolator.                                         *)
(***************************************************************************)
\* v = sv + (ev - sv) * k / dist, stated on the numerators and denominators
LinearEq(v, sv, ev, k, dist) ==
    /\ v.k = "num"
    /\ v.n * (sv.d * ev.d * dist) = v.d * (sv.n * ev.d * dist + (ev.n * sv.d - sv.n * ev.d) * k)

Between(v, sv, ev) == (FLe(sv, v) /\ FLe(v, ev)) \/ (FLe(ev, v) /\ FLe(v, sv))

RunsWithId(list, r) == SelectSeq(list, LAMBDA run : run.id = r)

PresentBelow(b, c) == {j \in 1..(c - 1) : IsOk(data_real[j], b)}

PresentAbove(b, c) == {j \in (c + 1)..Len(data_real) : IsOk(data_real[j], b)}

SeenBelow(b, c, r) == {j \in 1..(c - 1) : HasRun(data_real[j], b, r)}

SeenAbove(b, c, r) == {j \in (c + 1)..Len(data_real) : HasRun(data_real[j], b, r)}

\* the benchmark-level fill of (c, b) took both neighbours
BenchHole(b, c) ==
    /\ ~is_try(data_real[c].commit)
    /\ ~IsOk(data_real[c], b)
    /\ PresentBelow(b, c) # {}
    /\ PresentAbove(b, c) # {}

\* the position of the loop of InputData::new, between its two halves
AtRuns(b, c) == ipc = "runs" /\ commit_idx = c /\ bench_order[bench_pos] = b

\* C1: the benchmark-level fill of a hole bounded on both sides takes the
\* greatest present index below and the least present index above, yields
\* exactly one run per RunId present at both neighbours, whose statistics
\* are those present in both runs, each with the value
\* start + (end - start) * (c - start) / (end - start index), and records
\* exactly one Interpolation (benchmark, None); 10 and 30 one commit apart
\* on each side give 20.
C1_BenchLevelLinear ==
    \A c \in 1..Len(data_real) : \A b \in BenchmarkNames :
        (AtRuns(b, c) /\ BenchHole(b, c)) =>
            LET s == SetMax(PresentBelow(b, c))
                e == SetMin(PresentAbove(b, c))
                sruns == data_real[s].benchmarks[b].runs
                eruns == data_real[e].benchmarks[b].runs
                got == data_next[c].benchmarks[b]
            IN /\ got.tag = "ok"
               /\ \A r \in RunIds :
                    IF RunsWithId(sruns, r) # <<>> /\ RunsWithId(eruns, r) # <<>>
                    THEN LET ss == RunsWithId(sruns, r)[1].stats
                             es == RunsWithId(eruns, r)[1].stats
                             g == RunsWithId(got.runs, r)
                         IN /\ Len(g) = 1
                            /\ DOMAIN g[1].stats = (DOMAIN ss) \cap (DOMAIN es)
                            /\ \A st \in DOMAIN g[1].stats :
                                 /\ LinearEq(g[1].stats[st], ss[st], es[st], c - s, e - s)
                                 /\ (ss[st] = F(10) /\ es[st] = F(30) /\ c - s = 1 /\ e - c = 1)
                                        => g[1].stats[st] = F(20)
                    ELSE RunsWithId(got.runs, r) = <<>>
               /\ SelectSeq(interpolated[data_real[c].commit.sha], LAMBDA rec : rec.benchmark = b)
                     = <<Interpolation(b, "None")>>

\* C1 witness: commit c is a hole between wall-time 10 and 30 and got 20
C1_Witness ==
    \E c \in 2..(Len(data_real) - 1) : \E b \in BenchmarkNames :
        /\ AtRuns(b, c) /\ BenchHole(b, c)
        /\ data_real[c - 1].benchmarks[b] = Ok(<<MkRun("clean", StatsA)>>)
        /\ data_real[c + 1].benchmarks[b] = Ok(<<MkRun("clean", StatsB)>>)
        /\ data_next[c].benchmarks[b] = Ok(<<MkRun("clean", [s \in {"wall-time"} |-> F(20)])>>)

\* a run-level fill of (c, b, r) that took both neighbours: the measured
\* benchmark succeeded at c without the known run r
RunHole(b, c, r) ==
    /\ ~is_try(data_real[c].commit)
    /\ b \in current_benchmarks(data_real)
    /\ IsOk(data_real[c], b)
    /\ ~HasRun(data_real[c], b, r)
    /\ r \in known_runs(data_real, b)
    /\ SeenBelow(b, c, r) # {}
    /\ SeenAbove(b, c, r) # {}

\* C2: the run-level fill fabricates every shared statistic as
\* start + (end - start) * (c - s) / (e - s), s the index where the run was
\* last seen and e the index where it is next seen.
C2_RunLevelLinear ==
    ipc = "done" =>
        \A c \in 1..Len(data_real) : \A b \in BenchmarkNames : \A r \in RunIds :
            RunHole(b, c, r) =>
                LET s == SetMax(SeenBelow(b, c, r))
                    e == SetMin(SeenAbove(b, c, r))
                    ss == RunOf(data_real[s], b, r).stats
                    es == RunOf(data_real[e], b, r).stats
                    g == RunsWithId(data_next[c].benchmarks[b].runs, r)
                IN /\ Len(g) = 1
                   /\ \A st \in (DOMAIN ss) \cap (DOMAIN es) :
                        /\ st \in DOMAIN g[1].stats
                        /\ LinearEq(g[1].stats[st], ss[st], es[st], c - s, e - s)

\* C3: every statistic fabricated from a start and an end neighbour, by the
\* benchmark-level or by the run-level fill, lies between the two values.
C3_NoOvershoot ==
    ipc = "done" =>
        \A c \in 1..Len(data_real) : \A b \in BenchmarkNames : \A r \in RunIds :
            /\ (BenchHole(b, c) /\ b \in current_benchmarks(data_real)) =>
                 LET s == SetMax(PresentBelow(b, c))
                     e == SetMin(PresentAbove(b, c))
                 IN (HasRun(data_real[s], b, r) /\ HasRun(data_real[e], b, r)) =>
                      LET ss == RunOf(data_real[s], b, r).stats
                          es == RunOf(data_real[e], b, r).stats
                          g == RunsWithId(data_next[c].benchmarks[b].runs, r)
                      IN \A k \in 1..Len(g) : \A st \in DOMAIN g[k].stats :
                            Between(g[k].stats[st], ss[st], es[st])
            /\ RunHole(b, c, r) =>
                 LET ss == RunOf(data_real[SetMax(SeenBelow(b, c, r))], b, r).stats
                     es == RunOf(data_real[SetMin(SeenAbove(b, c, r))], b, r).stats
                     g == RunsWithId(data_next[c].benchmarks[b].runs, r)
                 IN \A k \in 1..Len(g) : \A st \in DOMAIN g[k].stats :
                       Between(g[k].stats[st], ss[st], es[st])

(***************************************************************************)
(* Properties of the runner and of the processors.                         *)
(***************************************************************************)
InRunRustc == mpc \in {"leaf", "output"}

Terminated == mpc \in {"done", "error", "aborted"}

LeafPositions == (1..MaxBuildKinds) \X (0..(Max2(default_runs, 2) - 1)) \X (1..(3 + MaxPatches))

\* C4: the retry loop of a leaf terminates for every processor: a leaf that
\* is being executed (in run_rustc at one position of the matrix) is
\* eventually left, by run_rustc returning or by the process aborting, even
\* when its executions exit successfully without statistic output.
C4_RetryLoopTerminates ==
    \A p \in LeafPositions :
        (InRunRustc /\ <<bk, i, leaf_pos>> = p) ~> ~(InRunRustc /\ <<bk, i, leaf_pos>> = p)

\* the step is process_output of BenchProcessor on the parsed output res
BenchAnswers(tag) ==
    /\ processor.kind = "Bench"
    /\ mpc = "output"
    /\ process_perf_stat_output(output).tag = tag

\* C5: on NoOutput BenchProcessor answers Retry::Yes and adds one to tries
\* while tries < 5; at tries = 5 a NoOutput is fatal (neither Retry::Yes nor
\* Retry::No is answered); a successful result leaves tries alone.
C5_BenchTries ==
    [][\/ UploadFinishes
       \/ /\ (BenchAnswers("NoOutput") /\ tries < 5) =>
                (retry' = "Yes" /\ mpc' = "leaf" /\ tries' = tries + 1)
          /\ (BenchAnswers("NoOutput") /\ tries >= 5) => (mpc' = "aborted" /\ tries = 5)
          /\ BenchAnswers("Ok") => (retry' = "No" /\ tries' = tries)]_vars

\* C5 witness: the fifth retry has been granted and the leaf runs again
C5_Witness ==
    /\ processor.kind = "Bench"
    /\ tries = 5
    /\ retry = "Yes"
    /\ mpc = "output"
    /\ output = NoRustcOutput

\* process_output returned the answer r in this step
Answered(r) == mpc = "output" /\ mpc' \notin {"error", "aborted"} /\ retry' = r

SameLeaf == <<bk, i, leaf_pos, cwd, dirs, runs, processor, patches>>

\* C6: after Retry::Yes the runner is back at the invocation of the same
\* leaf (same build kind, scenario, patch, working directory) and the next
\* step is that invocation: no other leaf, patch application, temp dir or
\* finalize call comes in between; after Retry::No it is at the next leaf of
\* the plan or at the end of the iteration; after an error or a panic
\* nothing is executed any more.  (The end of an upload running in the
\* background is not a step of the runner.)
C6_RetrySameLeaf ==
    [][\/ UploadFinishes
       \/ /\ Answered("Yes") => (mpc' = "leaf" /\ SameLeaf' = SameLeaf)
          /\ (mpc = "leaf" /\ retry = "Yes") =>
               \/ mpc' = "aborted"
               \/ (mpc' \in {"output", "error"} /\ SameLeaf' = SameLeaf /\ last_leaf'.leaf = leaf)
          /\ Answered("No") =>
               \/ (leaf_pos < Len(plan) /\ leaf_pos' = leaf_pos + 1 /\ i' = i /\ mpc' \in {"leaf", "patch"})
               \/ (leaf_pos = Len(plan) /\ mpc' = "iter_head" /\ i' = i + 1)
          /\ ~Terminated]_vars

\* C6 witness: a patched leaf was retried and its process has exited again
C6_Witness ==
    /\ mpc = "output"
    /\ retry = "Yes"
    /\ leaf.run_kind = "IncrPatched"
    /\ leaf.patch = 2
    /\ last_leaf = [bk |-> bk, i |-> i, leaf |-> leaf]

Rank(l) ==
    IF l.run_kind = "Full" THEN 1
    ELSE IF l.run_kind = "IncrFull" THEN 2
    ELSE IF l.run_kind = "IncrUnchanged" THEN 3
    ELSE IF l.run_kind = "IncrPatched" THEN 3 + l.patch
    ELSE 0

Requested(kind) == kind \in Range(run_kinds)

\* the leaves an iteration has to execute
ExpectedLeaves ==
    (IF Requested("Full") THEN {Leaf("Full", 0)} ELSE {})
    \cup (IF Requested("IncrFull") \/ Requested("IncrUnchanged") \/ Requested("IncrPatched")
          THEN {Leaf("IncrFull", 0)} ELSE {})
    \cup (IF Requested("IncrUnchanged") THEN {Leaf("IncrUnchanged", 0)} ELSE {})
    \cup (IF Requested("IncrPatched") THEN {Leaf("IncrPatched", k) : k \in 1..Len(patches)} ELSE {})

LexLess(a, b) ==
    \/ a[1] < b[1]
    \/ a[1] = b[1] /\ a[2] < b[2]
    \/ a[1] = b[1] /\ a[2] = b[2] /\ a[3] < b[3]

Key(l) == <<l.bk, l.i, Rank(l.leaf)>>

\* C7: a leaf is first invoked when exactly the leaves that precede it in
\* the order Full, IncrFull, IncrUnchanged, IncrPatched per patch (in patch
\* order) have returned in this iteration, whatever the order of run_kinds;
\* an iteration ends when all its leaves have returned; the leaves invoked
\* follow each other in increasing (build kind, iteration, rank) order, and
\* the build kind changes only from the end of the iteration loop (a panic
\* ends everything).
C7_LeafOrder ==
    [][mpc' # "aborted" =>
            /\ last_leaf' # last_leaf =>
                 /\ last_leaf' = [bk |-> bk, i |-> i, leaf |-> leaf]
                 /\ LexLess(Key(last_leaf), Key(last_leaf'))
                 /\ completed = {l \in ExpectedLeaves : Rank(l) < Rank(leaf)}
                 /\ leaf \in ExpectedLeaves
            /\ i' = i + 1 => (completed' = ExpectedLeaves /\ bk' = bk)
            /\ bk' # bk => (mpc = "finish" /\ bk' = bk + 1)]_vars

\* C7 witness: the scenarios were listed backwards, two build kinds, and the
\* second patched leaf of the second build kind is running
C7_Witness ==
    /\ run_kinds = <<"IncrPatched", "Full">>
    /\ bk = 2
    /\ mpc = "output"
    /\ last_leaf = [bk |-> 2, i |-> 1, leaf |-> Leaf("IncrPatched", 2)]
    /\ completed = {Leaf("Full", 0), Leaf("IncrFull", 0), Leaf("IncrPatched", 1)}

\* C8: while an IncrUnchanged or IncrPatched leaf is being executed, or its
\* patch applied, the IncrFull leaf has returned Ok in the current timing
\* dir, i.e. earlier in the same iteration, requested or not.
C8_IncrFullFirst ==
    (mpc \in {"leaf", "output", "patch"} /\ leaf.run_kind \in {"IncrUnchanged", "IncrPatched"})
        => (Leaf("IncrFull", 0) \in completed /\ cwd.id = dirs /\ cwd.id # 0)

\* C8 witness: only IncrUnchanged was requested and its leaf is running
C8_Witness ==
    /\ run_kinds = <<"IncrUnchanged">>
    /\ mpc = "output"
    /\ leaf.run_kind = "IncrUnchanged"
    /\ Leaf("IncrFull", 0) \in completed

\* C9: when the loop over the iterations of a build kind is over, max(n, 1)
\* iterations were executed if finished_first_collection answered false and
\* max(n, 2) if it answered true, n = min(requested, config.runs).
C9_IterationCount ==
    mpc = "finish" =>
        iters_run = IF different = "true" THEN Max2(iterations, 2) ELSE Max2(iterations, 1)

\* C9 as amended: as above for n >= 1; for n = 0 two iterations are
\* executed whatever finished_first_collection answers.
C9_IterationCountAmended ==
    mpc = "finish" =>
        /\ different \in {"true", "false"}
        /\ iters_run = IF iterations = 0 THEN 2
                       ELSE IF different = "true" THEN Max2(iterations, 2)
                       ELSE Max2(iterations, 1)

\* C9 witness: runs = 0 in perf-config.json, no second pass needed, and two
\* iterations were executed
C9_Witness ==
    /\ mpc = "finish"
    /\ iterations = 0
    /\ different = "false"
    /\ iters_run = 2

IllegalErrors ==
    {"this profiler doesn't support this build kind", "this profiler doesn't support this run kind"}

\* C10: when measure fails because the tool is illegal for a build kind or
\* a scenario, no external process was spawned for the benchmark before: no
\* temp-dir copy, no preparatory build, no pkgid query, no leaf.
C10_IllegalBeforeAnyProcess ==
    (mpc = "error" /\ err \in IllegalErrors) => (ops = {} /\ dirs = 0)

\* the tool of the processor is illegal for the leaf about to be invoked
IllegalLeaf ==
    /\ mpc = "leaf"
    /\ profiler = "llvm-lines"
    /\ (build_kind = "Check" \/ leaf.run_kind # "Full")

\* C10 as amended: a leaf whose tool is illegal for its build kind or its
\* scenario fails with an error, never a retry, before any process is
\* spawned for that leaf (no pkgid query, no touch, no toolchain process, no
\* processor call); the temp-dir copies, the preparatory build and the
\* leaves before it in the iteration have run by then.
C10_IllegalBeforeLeafProcess ==
    [][/\ IllegalLeaf =>
            /\ mpc' = "error"
            /\ err' \in IllegalErrors
            /\ ~leaf_spawned
            /\ <<ops, leaf_spawned, dirs, cwd, output, retry, last_leaf, completed, tries, buckets, conn>>'
                  = <<ops, leaf_spawned, dirs, cwd, output, retry, last_leaf, completed, tries, buckets, conn>>
       /\ (err' \in IllegalErrors /\ err \notin IllegalErrors) => IllegalLeaf]_vars

\* C10 witness: llvm-lines with Full and IncrPatched: the Full leaf ran and
\* returned, then the IncrFull leaf was refused
C10_Witness ==
    /\ mpc = "error"
    /\ err = "this profiler doesn't support this run kind"
    /\ Leaf("Full", 0) \in completed
    /\ {"cp", "pkgid", "touch", "rustc"} \subseteq ops
    /\ last_leaf.leaf = Leaf("Full", 0)

(***************************************************************************)
(* The Full-only tool asked for Full and IncrPatched.                      *)
(***************************************************************************)
RunKindRefused ==
    /\ processor = ProfileProcessor("llvm-lines")
    /\ run_kinds = <<"Full", "IncrPatched">>
    /\ mpc = "error"
    /\ err = "this profiler doesn't support this run kind"

\* C11 as stated: when llvm-lines is run with a legal build kind and the
\* scenarios {Full, IncrPatched}, the Full leg has succeeded and the leg
\* refused with the run-kind error is the IncrPatched leg.
C11_PatchedLegRefused ==
    RunKindRefused => (Leaf("Full", 0) \in completed /\ leaf.run_kind = "IncrPatched")

\* C11 amended: in that call the Full leg has succeeded and the leg refused
\* with the run-kind error is the IncrFull leg that IncrPatched implies; the
\* call never gets to a patch or to an IncrPatched leaf.
C11_IncrFullLegRefused ==
    /\ RunKindRefused =>
         /\ Leaf("Full", 0) \in completed
         /\ leaf = Leaf("IncrFull", 0)
         /\ last_leaf.leaf = Leaf("Full", 0)
         /\ build_kind \in {"Debug", "Opt"}
    /\ (processor = ProfileProcessor("llvm-lines") /\ run_kinds = <<"Full", "IncrPatched">>) =>
         /\ mpc # "patch"
         /\ "patch" \notin ops
         /\ last_leaf.leaf.run_kind # "IncrPatched"
         /\ mpc \notin {"finish", "done"}

\* C11 witness: the refusal, with patches waiting that were never applied
C11_Witness ==
    /\ RunKindRefused
    /\ patches # << >>
    /\ completed = {Leaf("Full", 0)}
    /\ cwd.applied = << >>

(***************************************************************************)
(* Properties of the parser of the counter statistics.                     *)
(***************************************************************************)
FiveFields(line) == ~line.marker /\ Len(line.parts) >= 5

\* the percentage fields that begin with "100."
FullTime == {"100.00", "100.0"}

\* the count fields of a counter that did not count
NotCounted == {"", "<not supported>"}

Multiplexed(line) == FiveFields(line) /\ line.parts[5] \notin FullTime

Fatal(res) == res.tag \in {"panic", "ParseError"}

\* C12 as stated: an output with a five-field line whose percentage does
\* not start with "100." is never parsed to Ok and never to NoOutput,
\* whatever the other fields of the line.
C12_MultiplexedFatal ==
    (ppc = "parsed" /\ \E k \in DOMAIN stdout : Multiplexed(stdout[k])) => Fatal(parsed)

\* C12 amended: an output with a five-field line whose count is neither
\* empty nor `<not supported>` and whose percentage does not start with
\* "100." is never parsed to Ok and never to NoOutput; when no earlier line
\* is fatal the outcome is the panic of that line.
C12_CountedMultiplexedFatal ==
    (ppc = "parsed" /\ \E k \in DOMAIN stdout : Multiplexed(stdout[k]) /\ stdout[k].parts[1] \notin NotCounted)
        => /\ Fatal(parsed)
           /\ parsed.stats = EmptyStats
           /\ (\A k \in DOMAIN stdout :
                   \/ stdout[k].marker /\ stdout[k].parts[1] = "{query_data}"
                   \/ ~stdout[k].marker /\ Len(stdout[k].parts) < 5
                   \/ FiveFields(stdout[k])
                        /\ (stdout[k].parts[1] \in NotCounted \/ stdout[k].parts[1] \in {"3", "5"}))
                => parsed.tag = "panic"

\* C12 witness: a good line, then a multiplexed one with a count
C12_Witness ==
    /\ ppc = "parsed"
    /\ stdout = <<StatLine("5", "max-rss", "100.00"), StatLine("3", "instructions:u", "57.31")>>
    /\ parsed.tag = "panic"

\* a line that puts a statistic into the map: five fields, a count that is
\* a number, counted for the whole time
ValidStat(line) ==
    /\ FiveFields(line)
    /\ line.parts[1] \in {"3", "5"}
    /\ line.parts[5] \in FullTime

\* a line the parser passes over
PassedOver(line) ==
    \/ line.marker /\ line.parts[1] = "{query_data}"
    \/ ~line.marker /\ Len(line.parts) < 5
    \/ FiveFields(line) /\ line.parts[1] \in NotCounted

\* C13 as stated: an output without a valid statistic line is parsed to
\* NoOutput, never to a fatal outcome.
C13_NoValidLineNoOutput ==
    (ppc = "parsed" /\ \A k \in DOMAIN stdout : ~ValidStat(stdout[k])) => parsed.tag = "NoOutput"

\* C13 amended: an output is parsed to NoOutput exactly when every line of
\* it is passed over (a marker line with a well-formed payload, a line of
\* fewer than five fields, a line with an empty or `<not supported>`
\* count); an output without a valid statistic line that has a line of
\* another kind is fatal.
C13_PassedOverNoOutput ==
    ppc = "parsed" =>
        /\ (\A k \in DOMAIN stdout : PassedOver(stdout[k])) <=> parsed.tag = "NoOutput"
        /\ ((\A k \in DOMAIN stdout : ~ValidStat(stdout[k]))
              /\ (\E k \in DOMAIN stdout : ~PassedOver(stdout[k]))) => Fatal(parsed)

\* C13 witness: a marker line, a short line and an unsupported counter
C13_Witness ==
    /\ ppc = "parsed"
    /\ stdout = <<MarkerLine, [marker |-> FALSE, parts |-> <<"">>],
                  StatLine("<not supported>", "instructions:u", "57.31")>>
    /\ parsed.tag = "NoOutput"

(***************************************************************************)
(* Properties of the accumulators of MeasureProcessor.                     *)
(***************************************************************************)
\* C14: finish_build_kind is invoked once per build kind: the call is
\* reached only from the end of the iteration loop, with no leaf in
\* progress; it spawns nothing and is followed by the next build kind or by
\* the return of measure; the build kind advances, and measure returns Ok,
\* only through it.  When it returns the accumulators of MeasureProcessor
\* are empty, so they are empty when a build kind starts and whatever a
\* build kind flushes was measured under it.
C14_FinishOncePerBuildKind ==
    /\ []((processor.kind = "Measure" /\ mpc \in {"prep_dir", "prep_build", "done"})
            => buckets = EmptyBuckets)
    /\ [][\/ UploadFinishes
          \/ /\ mpc = "finish" =>
                  /\ mpc' \in {"prep_dir", "done"}
                  /\ ops' = ops /\ dirs' = dirs
                  /\ processor.kind = "Measure" => buckets' = EmptyBuckets
                  /\ mpc' = "prep_dir" => (bk < Len(build_kinds) /\ bk' = bk + 1)
                  /\ mpc' = "done" => (bk = Len(build_kinds) /\ bk' = bk)
             /\ (mpc' = "finish" /\ mpc # "finish") =>
                  (mpc = "iter_head" /\ leaf_pos = 0 /\ ~leaf_spawned /\ bk' = bk)
             /\ (bk' # bk /\ mpc' # "aborted") => mpc = "finish"
             /\ (mpc' = "done" /\ mpc # "done") => mpc = "finish"]_vars

\* C14 witness: the second build kind starts after a first one that
\* flushed patched and unpatched buckets
C14_Witness ==
    /\ processor.kind = "Measure"
    /\ bk = 2
    /\ mpc = "prep_dir"
    /\ Len(runs) = 3 + Len(patches)
    /\ patches # << >>
    /\ buckets = EmptyBuckets

\* RunId of a Run
RunIdOf(r) == <<r.check, r.release, r.state>>

\* the BenchmarkState of the Run of a leaf
StateOf(l) ==
    IF l.run_kind = "Full" THEN "Clean"
    ELSE IF l.run_kind = "IncrFull" THEN "IncrementalStart"
    ELSE IF l.run_kind = "IncrUnchanged" THEN "IncrementalClean"
    ELSE patches[l.patch].name

\* C15: when measure has returned Ok to a caller that used a
\* MeasureProcessor (the processor that fills the run list), no two Runs of
\* the list have the same RunId, and the RunIds are exactly those of the
\* build kinds paired with the executed leaves (Full, IncrFull,
\* IncrUnchanged, one per patch name), tagged check for Check and release
\* for Opt, whatever the number of iterations and retries.
C15_OneRunPerRunId ==
    (processor.kind = "Measure" /\ mpc = "done") =>
        /\ \A a, b \in DOMAIN runs : a # b => RunIdOf(runs[a]) # RunIdOf(runs[b])
        /\ {RunIdOf(runs[k]) : k \in DOMAIN runs}
              = {<<kind = "Check", kind = "Opt", StateOf(l)>> : kind \in Range(build_kinds), l \in ExpectedLeaves}
        /\ Len(runs) = Len(build_kinds) * Cardinality(ExpectedLeaves)

\* C15 witness: two build kinds, every scenario, patches, three iterations
C15_Witness ==
    /\ processor.kind = "Measure"
    /\ mpc = "done"
    /\ Len(build_kinds) = 2
    /\ run_kinds = AllRunKinds
    /\ patches # << >>
    /\ iterations = 3
    /\ retry = "No"
    /\ Len(runs) = 2 * (3 + Len(patches))

\* the accumulator a leaf is routed to: a fixed bucket, or the entry of the
\* patch name in the patched list (an empty one when there is none yet)
BucketOf(b, l) ==
    IF l.run_kind = "Full" THEN b.clean_stats
    ELSE IF l.run_kind = "IncrFull" THEN b.base_incr_stats
    ELSE IF l.run_kind = "IncrUnchanged" THEN b.clean_incr_stats
    ELSE LET S == {k \in DOMAIN b.patched_incr_stats :
                      b.patched_incr_stats[k].patch.name = patches[l.patch].name}
         IN IF S = {} THEN [stats |-> << >>, profile |-> "None"]
            ELSE b.patched_incr_stats[CHOOSE k \in S : TRUE].acc

StatNames == {"instructions:u", "max-rss"}

ValueOf(stats, n) == IF n \in DOMAIN stats THEN stats[n] ELSE 0

\* C16: a process_output call of MeasureProcessor on a parsed output adds
\* each statistic of the output to the bucket of the leaf (scenario, patch
\* name) and to no other bucket, and replaces the SelfProfile of that
\* bucket only when the output carries one; a call on a NoOutput leaves
\* every bucket as it was.  The buckets are empty when the build kind
\* starts, so each holds the sums over the parsed outputs routed to it and
\* the most recent profile.
C16_BucketsAreSums ==
    [][(processor.kind = "Measure" /\ mpc = "output" /\ mpc' # "aborted") =>
          LET res == process_perf_stat_output(output)
          IN /\ res.tag = "NoOutput" => buckets' = buckets
             /\ res.tag = "Ok" =>
                  /\ \A l \in Range(plan) : \A n \in StatNames :
                        ValueOf(BucketOf(buckets', l).stats, n) =
                            ValueOf(BucketOf(buckets, l).stats, n)
                              + (IF l = leaf THEN ValueOf(res.stats, n) ELSE 0)
                  /\ \A l \in Range(plan) :
                        BucketOf(buckets', l).profile =
                            IF l = leaf /\ res.profile # "None" THEN res.profile
                            ELSE BucketOf(buckets, l).profile
                  /\ Len(buckets'.patched_incr_stats) <= Len(patches)]_vars

\* C16 witness: the Full bucket after a first output with a profile, a
\* NoOutput attempt and a second output without a profile
C16_Witness ==
    /\ processor = MeasureProcessor(TRUE)
    /\ mpc = "output"
    /\ i = 1
    /\ leaf.run_kind = "IncrFull"
    /\ output = NoRustcOutput
    /\ retry = "Yes"
    /\ buckets.clean_stats = [stats |-> [n \in StatNames |-> IF n = "max-rss" THEN 10 ELSE 6],
                               profile |-> "{query_data}"]
    /\ buckets.base_incr_stats.stats["max-rss"] = 5

(***************************************************************************)
(* Properties of bench_commit.                                             *)
(***************************************************************************)
Stored(name) == existing_data.loaded /\ name \in DOMAIN existing_data.benchmarks

DisabledEntry == [tag |-> "Err", msg |-> "disabled benchmark"]

\* the disabled benchmarks measure was called for and has returned for
DisabledMeasured ==
    {b \in Range(benchmarks) : b.config.disabled /\ ~Stored(b.name) /\ b.name \in DOMAIN results}

\* the requested benchmarks without a stored entry, in list order
ToMeasure == SelectSeq(benchmarks, LAMBDA b : ~Stored(b.name))

\* C17 as stated: a disabled benchmark gets an error entry and no process
\* at all was spawned on its behalf.
C17_DisabledNoProcess ==
    \A b \in DisabledMeasured :
        /\ results[b.name] = DisabledEntry
        /\ spawned_for[b.name] = {}

\* C17 amended: while measure runs for a disabled benchmark it spawns
\* nothing, creates no temp dir and calls no processor hook, and it returns
\* the "disabled" error; the entry of the benchmark is that error; the only
\* process spawned on behalf of the benchmark is the `perf` probe of the
\* MeasureProcessor bench_commit builds before calling measure; when
\* bench_commit returns every other benchmark without a stored entry has
\* been measured and has its entry.
C17_DisabledOnlyProbe ==
    /\ (bpc = "measuring" /\ config.disabled) =>
         /\ mpc \in {"start", "error"}
         /\ mpc = "error" => err = "disabled benchmark"
         /\ ops = {} /\ dirs = 0
         /\ different = "unset" /\ retry = "None" /\ last_leaf = NoLeaf
         /\ runs = << >> /\ buckets = EmptyBuckets /\ is_first_collection
    /\ \A b \in DisabledMeasured :
         /\ results[b.name] = DisabledEntry
         /\ spawned_for[b.name] = {"perf"}
    /\ bpc = "done" =>
         /\ Names(benchmarks) = DOMAIN results
         /\ measured = [k \in 1..Len(ToMeasure) |-> ToMeasure[k].name]

\* C17 witness: a disabled benchmark first, then one that was measured
C17_Witness ==
    /\ bpc = "done"
    /\ Len(benchmarks) = 2
    /\ benchmarks[1].config.disabled /\ ~benchmarks[2].config.disabled
    /\ measured = <<"helloworld", "regex">>
    /\ results["helloworld"] = DisabledEntry
    /\ results["regex"].tag = "Ok"
    /\ spawned_for["helloworld"] = {"perf"}

\* C18: when measure returns, the benchmark gets its entry (the error
\* string for an Err, the runs for an Ok), no other entry is removed or
\* altered and the loop goes on to the next benchmark; when bench_commit
\* returns, the result set has exactly the requested benchmarks as keys and
\* every benchmark without a stored entry was measured, in list order.
C18_OneEntryPerBenchmark ==
    /\ [](bpc = "done" =>
            /\ DOMAIN results = Names(benchmarks)
            /\ measured = [k \in 1..Len(ToMeasure) |-> ToMeasure[k].name])
    /\ [][(bpc = "measuring" /\ bpc' # "measuring") =>
            /\ mpc \in {"done", "error"}
            /\ benchmarks[bidx].name \notin DOMAIN results
            /\ DOMAIN results' = DOMAIN results \cup {benchmarks[bidx].name}
            /\ \A n \in DOMAIN results : results'[n] = results[n]
            /\ results'[benchmarks[bidx].name] =
                  IF mpc = "error" THEN [tag |-> "Err", msg |-> err] ELSE [tag |-> "Ok", runs |-> runs]
            /\ bpc' = "loop" /\ bidx' = bidx + 1]_vars

\* C18 witness: the build of the first benchmark failed, the second one
\* was measured
C18_Witness ==
    /\ bpc = "done"
    /\ Len(benchmarks) = 2
    /\ results["helloworld"] = [tag |-> "Err", msg |-> "expected success"]
    /\ results["regex"].tag = "Ok"
    /\ Len(results["regex"].runs) = 1

\* C19: measure is never called for a benchmark that has a stored entry and
\* never twice for one benchmark; from the start of the loop on the entry
\* of a benchmark with a stored entry is the stored entry; when
\* bench_commit returns the benchmarks measured are exactly the requested
\* ones without a stored entry.
C19_Resume ==
    /\ \A k \in DOMAIN measured : ~Stored(measured[k])
    /\ \A a, b \in DOMAIN measured : a # b => measured[a] # measured[b]
    /\ bpc \in {"loop", "measuring", "done"} =>
         \A b \in Range(benchmarks) : Stored(b.name) =>
             (b.name \in DOMAIN results /\ results[b.name] = existing_data.benchmarks[b.name])
    /\ bpc = "done" => Range(measured) = {b.name : b \in {c \in Range(benchmarks) : ~Stored(c.name)}}

\* C19 witness: the first benchmark has a stored error, the second one none
C19_Witness ==
    /\ bpc = "done"
    /\ Len(benchmarks) = 2
    /\ Stored("helloworld") /\ ~Stored("regex") /\ Stored("syn")
    /\ results["helloworld"] = StoredErr
    /\ measured = <<"regex">>
    /\ results["regex"].tag = "Ok"

(***************************************************************************)
(* Try commits and the interpolator.                                       *)
(***************************************************************************)
\* C20: at every point of the pass, the entry of a commit dated 2000-01-01
\* in the dataset being filled is its entry in the measured dataset, and
\* `interpolated` has no key for its sha.
C20_TryNotTarget ==
    \A k \in DOMAIN data_real :
        data_real[k].commit.date = "2000-01-01" =>
            /\ data_next[k] = data_real[k]
            /\ data_real[k].commit.sha \notin DOMAIN interpolated

\* C20 witness: the pass is over, a try commit lacks a benchmark and a run
\* that later commits have, and later commits were filled
C20_Witness ==
    /\ ipc = "done"
    /\ Len(data_real) >= 3
    /\ data_real[1].commit.date = "2000-01-01"
    /\ \E b \in BenchmarkNames :
         /\ data_real[1].benchmarks[b] = Ok(<<MkRun("clean", StatsA)>>)
         /\ HasRun(data_real[2], b, "patched incremental: println")
         /\ ~IsOk(data_real[3], b)
         /\ IsOk(data_next[3], b)
    /\ DOMAIN interpolated # {}

(***************************************************************************)
(* Provenance and shape of the interpolated dataset.                       *)
(***************************************************************************)
\* the records of `interpolated` for (c, b), in the order they were pushed
RecordsOf(c, b) ==
    LET sha == data_real[c].commit.sha
    IN IF sha \in DOMAIN interpolated
       THEN SelectSeq(interpolated[sha], LAMBDA rec : rec.benchmark = b)
       ELSE <<>>

WholeRecords(c, b) == SelectSeq(RecordsOf(c, b), LAMBDA rec : rec.run = "None")

RunRecords(c, b) == SelectSeq(RecordsOf(c, b), LAMBDA rec : rec.run # "None")

IdsOf(list) == [k \in DOMAIN list |-> list[k].id]

\* C21: when InputData::new returns, for every commit and benchmark the
\* interpolated entry differs from the measured one exactly when
\* `interpolated` has a record for it; there is one record (benchmark, None)
\* exactly when a missing or failed entry became a successful one and none
\* otherwise; the records (benchmark, Some(id)) are, in order, the ids of the
\* runs appended behind the measured (or whole-entry fabricated) runs, each
\* id once and none of them an id the entry already had; the measured runs
\* are unchanged; an entry that could not be filled has no record; and no
\* key of `interpolated` maps to an empty list.
C21_ProvenanceExact ==
    ipc = "done" =>
        /\ \A sha \in DOMAIN interpolated :
              /\ interpolated[sha] # <<>>
              /\ \E c \in DOMAIN data_real : data_real[c].commit.sha = sha
              /\ \A k \in DOMAIN interpolated[sha] : interpolated[sha][k].benchmark \in BenchmarkNames
        /\ \A c \in DOMAIN data_real : \A b \in BenchmarkNames :
              LET m == data_real[c].benchmarks[b]
                  n == data_next[c].benchmarks[b]
                  some == [k \in DOMAIN RunRecords(c, b) |-> RunRecords(c, b)[k].run]
                  kept == Len(n.runs) - Len(some)
              IN /\ (m # n) <=> (RecordsOf(c, b) # <<>>)
                 /\ WholeRecords(c, b) =
                       IF m.tag # "ok" /\ n.tag = "ok" THEN <<[benchmark |-> b, run |-> "None"]>> ELSE <<>>
                 /\ n.tag # "ok" => (n = m /\ RecordsOf(c, b) = <<>>)
                 /\ kept >= 0
                 /\ IdsOf(SubSeq(n.runs, kept + 1, Len(n.runs))) = some
                 /\ \A j, k \in DOMAIN some : j # k => some[j] # some[k]
                 /\ \A k \in DOMAIN some : \A j \in 1..kept : n.runs[j].id # some[k]
                 /\ m.tag = "ok" => SubSeq(n.runs, 1, kept) = m.runs

\* C21 witness: a commit whose entry was fabricated whole and then got a
\* fabricated run, next to a measured commit that has no record
C21_Witness ==
    /\ ipc = "done"
    /\ \E c \in DOMAIN data_real : \E b \in BenchmarkNames :
         /\ data_real[c].benchmarks[b].tag = "absent"
         /\ Len(WholeRecords(c, b)) = 1
         /\ Len(RunRecords(c, b)) = 1
         /\ Len(data_next[c].benchmarks[b].runs) = 2
    /\ \E c \in DOMAIN data_real : \E b \in BenchmarkNames :
         /\ data_real[c].benchmarks[b].tag = "ok"
         /\ data_real[c].commit.sha \notin DOMAIN interpolated

\* C22: no step of InputData::new changes data_real, the clone of the input
\* taken before the pass: data(Interpolate::No) stays the input sequence,
\* commit for commit, whatever is written into data(Interpolate::Yes).
C22_RealUntouched == [][data_real' = data_real]_vars

\* C22 witness: the pass is over, a whole entry and a run were written into
\* the interpolated dataset, and the measured dataset is an input dataset
C22_Witness ==
    /\ ipc = "done"
    /\ data_real \in Datasets
    /\ \E c \in DOMAIN data_real : \E b \in BenchmarkNames :
         /\ ~IsOk(data_real[c], b) /\ IsOk(data_next[c], b)
    /\ \E c \in DOMAIN data_real : \E b \in BenchmarkNames :
         /\ IsOk(data_real[c], b)
         /\ Len(data_next[c].benchmarks[b].runs) > Len(data_real[c].benchmarks[b].runs)

\* the commits of the 20 most recent positions of the history
InLast20(k) == k > Len(data_real) - 20

\* C23: when InputData::new returns, every commit that is not a try commit
\* has a successful entry for every benchmark that has an entry (successful
\* or failed) in one of the 20 most recent commits and a successful entry at
\* some commit; and for every benchmark with a successful entry in the 20
\* most recent commits, that entry has a run for every RunId of the
\* benchmark's successful entries in those 20 commits.
C23_NoHoles ==
    ipc = "done" =>
        \A c \in DOMAIN data_real : \A b \in BenchmarkNames :
            data_real[c].commit.date # "2000-01-01" =>
                /\ ( /\ \E k \in DOMAIN data_real :
                           InLast20(k) /\ data_real[k].benchmarks[b].tag \in {"ok", "err"}
                     /\ \E k \in DOMAIN data_real : data_real[k].benchmarks[b].tag = "ok" )
                      => data_next[c].benchmarks[b].tag = "ok"
                /\ \A r \in RunIds :
                      (\E k \in DOMAIN data_real :
                           /\ InLast20(k)
                           /\ data_real[k].benchmarks[b].tag = "ok"
                           /\ \E j \in DOMAIN data_real[k].benchmarks[b].runs :
                                 data_real[k].benchmarks[b].runs[j].id = r)
                      => /\ data_next[c].benchmarks[b].tag = "ok"
                         /\ \E j \in DOMAIN data_next[c].benchmarks[b].runs :
                               data_next[c].benchmarks[b].runs[j].id = r

\* C23 witness: the first measured commits lack the benchmark (one failed,
\* one never ran it), only the last commit has it, with both runs, and the
\* pass gave both commits both runs
C23_Witness ==
    /\ ipc = "done"
    /\ \E b \in BenchmarkNames :
         LET n == Len(data_real)
         IN /\ data_real[n - 2].commit.date # "2000-01-01"
            /\ data_real[n - 2].benchmarks[b].tag = "err"
            /\ data_real[n - 1].benchmarks[b].tag = "absent"
            /\ \A k \in 1..(n - 1) : data_real[k].benchmarks[b].tag # "ok"
            /\ Len(data_real[n].benchmarks[b].runs) = 2
            /\ Len(data_next[n - 2].benchmarks[b].runs) = 2
            /\ Len(data_next[n - 1].benchmarks[b].runs) = 2

\* every commit has a successful entry for every benchmark, and every
\* benchmark has, at every commit, every run it has at any commit
Dense ==
    \A c \in DOMAIN data_real : \A b \in BenchmarkNames :
        /\ data_real[c].benchmarks[b].tag = "ok"
        /\ \A k \in DOMAIN data_real :
              {data_real[k].benchmarks[b].runs[j].id : j \in DOMAIN data_real[k].benchmarks[b].runs}
                = {data_real[c].benchmarks[b].runs[j].id : j \in DOMAIN data_real[c].benchmarks[b].runs}

\* C24: on a dense input the pass of InputData::new does not panic, never
\* adds a key to `interpolated` and never writes the dataset being filled;
\* it returns an empty `interpolated` and a dataset identical to the input.
C24_DenseIdempotent ==
    Dense =>
        /\ ipc # "panicked"
        /\ interpolated = << >>
        /\ data_next = data_real

\* C24 witness: the pass is over on a dense input of try and measured
\* commits whose statistic values differ from commit to commit
C24_Witness ==
    /\ ipc = "done"
    /\ Dense
    /\ \E b \in BenchmarkNames :
         /\ data_real[1].benchmarks[b] = Ok(<<MkRun("clean", StatsA)>>)
         /\ data_real[2].benchmarks[b] = Ok(<<MkRun("clean", StatsB)>>)
         /\ data_real[Len(data_real)].benchmarks[b] = Ok(<<MkRun("clean", StatsA)>>)

\* the benchmark-level fill of (c, b) was made from the source commit src:
\* the entry starts with the runs of src, values unchanged, and whatever
\* follows them are runs of other ids
CopiedEntry(b, c, src) ==
    LET from == data_real[src].benchmarks[b].runs
        got == data_next[c].benchmarks[b]
    IN /\ got.tag = "ok"
       /\ Len(got.runs) >= Len(from)
       /\ SubSeq(got.runs, 1, Len(from)) = from
       /\ \A k \in (Len(from) + 1)..Len(got.runs) : \A j \in DOMAIN from : got.runs[k].id # from[j].id

\* the run r of the entry of (c, b) is the run r of the source commit src
CopiedRun(b, c, r, src) ==
    RunsWithId(data_next[c].benchmarks[b].runs, r) = RunsWithId(data_real[src].benchmarks[b].runs, r)

\* the run r of benchmark b is in one of the 20 most recent commits
SeenInLast20(b, r) ==
    \E k \in DOMAIN data_real :
        InLast20(k) /\ RunsWithId(data_real[k].benchmarks[b].runs, r) # <<>>

\* C25: when InputData::new returns, a benchmark missing or failed at a
\* commit that is not a try commit, with successful entries only at earlier
\* commits, has the runs of the nearest earlier one, values unchanged, and
\* with successful entries only at later commits those of the nearest later
\* one; a known run missing from a commit, seen only at earlier commits, is
\* the run of the nearest earlier commit that has it, values unchanged, and
\* seen only at later commits that of the nearest later one.
C25_OneSidedCopy ==
    ipc = "done" =>
        \A c \in DOMAIN data_real : \A b \in BenchmarkNames :
            (data_real[c].commit.date # "2000-01-01" /\ b \in Range(bench_order)) =>
                /\ data_real[c].benchmarks[b].tag # "ok" =>
                      /\ (PresentBelow(b, c) # {} /\ PresentAbove(b, c) = {})
                            => CopiedEntry(b, c, SetMax(PresentBelow(b, c)))
                      /\ (PresentBelow(b, c) = {} /\ PresentAbove(b, c) # {})
                            => CopiedEntry(b, c, SetMin(PresentAbove(b, c)))
                /\ \A r \in RunIds :
                      (SeenInLast20(b, r) /\ RunsWithId(data_real[c].benchmarks[b].runs, r) = <<>>) =>
                          /\ (SeenBelow(b, c, r) # {} /\ SeenAbove(b, c, r) = {})
                                => CopiedRun(b, c, r, SetMax(SeenBelow(b, c, r)))
                          /\ (SeenBelow(b, c, r) = {} /\ SeenAbove(b, c, r) # {})
                                => CopiedRun(b, c, r, SetMin(SeenAbove(b, c, r)))

\* C25 witness: the last commit lacks the benchmark; it got the entry of the
\* commit before it and, as second run, the run last seen two commits before
C25_Witness ==
    /\ ipc = "done"
    /\ \E b \in BenchmarkNames :
         LET n == Len(data_real)
         IN /\ data_real[n].benchmarks[b].tag = "absent"
            /\ data_real[n - 1].benchmarks[b] = Ok(<<MkRun("clean", StatsB)>>)
            /\ data_real[n - 2].benchmarks[b] =
                  Ok(<<MkRun("clean", StatsA), MkRun("patched incremental: println", StatsB)>>)
            /\ data_next[n].benchmarks[b] =
                  Ok(<<MkRun("clean", StatsB), MkRun("patched incremental: println", StatsB)>>)

(***************************************************************************)
(* Patches: identity and names.                                            *)
(***************************************************************************)
\* C26: two patches made by Patch::new are equal exactly when their names
\* are equal, and what they feed to a hasher is equal exactly when their
\* names are equal, whatever their index and path; the patches made of
\* 0-println.patch and 8-println.patch are equal and both named println;
\* and two runs with equal check and release flags whose states are
\* IncrementalPatched of patches of equal name have equal RunIds, with
\* equal hashes.
C26_PatchIdentity ==
    /\ \A j, k \in DOMAIN built :
          /\ PatchEq(built[j], built[k]) <=> (built[j].name = built[k].name)
          /\ (PatchHash(built[j]) = PatchHash(built[k])) <=> (built[j].name = built[k].name)
    /\ (Len(built) = 2 /\ {Str(file_names[1]), Str(file_names[2])} = {"0-println.patch", "8-println.patch"})
          => /\ built[1].name = "println"
             /\ built[2].name = "println"
             /\ PatchEq(built[1], built[2])
    /\ (npc = "done" /\ run_flags[1] = run_flags[2] /\ built[1].name = built[2].name)
          => /\ RunIdEq(run_ids[1], run_ids[2])
             /\ RunIdHash(run_ids[1]) = RunIdHash(run_ids[2])

\* C26 witness: the ids of two optimized runs patched with 0-println.patch
\* and 8-println.patch, whose patches differ in index and path
C26_Witness ==
    /\ npc = "done"
    /\ Str(file_names[1]) = "0-println.patch"
    /\ Str(file_names[2]) = "8-println.patch"
    /\ built[1].index = 0 /\ built[2].index = 8
    /\ built[1].path # built[2].path
    /\ run_flags[1] = run_flags[2]
    /\ run_flags[1].release

\* a file name of the form <digits>-<rest>.patch
Prefix(file_name) == SubSeq(file_name, 1, SetMin({k \in DOMAIN file_name : file_name[k] = "-"} \cup {Len(file_name) + 1}) - 1)

WellFormed(file_name) ==
    /\ Prefix(file_name) # <<>>
    /\ \A k \in DOMAIN Prefix(file_name) : file_name[k] \in {"0", "1", "2", "3", "4", "5", "6", "7", "8", "9"}
    /\ Len(file_name) >= Len(Prefix(file_name)) + 7
    /\ SubSeq(file_name, Len(file_name) - 5, Len(file_name)) = <<".", "p", "a", "t", "c", "h">>

\* <rest>.patch and <rest>
RestWithSuffix(file_name) == SubSeq(file_name, Len(Prefix(file_name)) + 2, Len(file_name))

Rest(file_name) == SubSeq(file_name, Len(Prefix(file_name)) + 2, Len(file_name) - 6)

\* the number a prefix of one or two digits writes
NumberOf(digits) ==
    LET d(ch) == CHOOSE n \in 0..9 : <<"0", "1", "2", "3", "4", "5", "6", "7", "8", "9">>[n + 1] = ch
    IN IF Len(digits) = 1 THEN d(digits[1]) ELSE 10 * d(digits[1]) + d(digits[2])

HyphensToSpaces(chars) == [k \in DOMAIN chars |-> IF chars[k] = "-" THEN " " ELSE chars[k]]

\* the characters left when every `.patch` is taken out, left to right
RECURSIVE WithoutDotPatch(_)
WithoutDotPatch(chars) ==
    IF chars = <<>> THEN <<>>
    ELSE IF Len(chars) >= 6 /\ SubSeq(chars, 1, 6) = <<".", "p", "a", "t", "c", "h">>
         THEN WithoutDotPatch(SubSeq(chars, 7, Len(chars)))
    ELSE <<chars[1]>> \o WithoutDotPatch(SubSeq(chars, 2, Len(chars)))

\* C27 as stated: for every file name <digits>-<rest>.patch, Patch::new
\* gives the index the digits write and the name <rest>, character for
\* character, hyphens included.
C27_NameIsRest ==
    \A k \in DOMAIN built :
        WellFormed(file_names[k]) =>
            /\ built[k].index = NumberOf(Prefix(file_names[k]))
            /\ built[k].name = Str(Rest(file_names[k]))

\* C27 amended: for every file name <digits>-<rest>.patch, Patch::new gives
\* the index the digits write and, as name, <rest>.patch with every hyphen
\* replaced by one space and every occurrence of `.patch` removed; the
\* name is <rest> when <rest> has neither a hyphen nor a `.patch`.
C27_NameSpacesForHyphens ==
    \A k \in DOMAIN built :
        WellFormed(file_names[k]) =>
            /\ built[k].index = NumberOf(Prefix(file_names[k]))
            /\ built[k].name = Str(WithoutDotPatch(HyphensToSpaces(RestWithSuffix(file_names[k]))))
            /\ (WithoutDotPatch(HyphensToSpaces(Rest(file_names[k]))) = Rest(file_names[k]))
                  => built[k].name = Str(Rest(file_names[k]))

\* C27 witness: 2-dummy-fn.patch was made the patch 2 named `dummy fn` and
\* 10-println.patch the patch 10 named `println`
C27_Witness ==
    /\ Len(built) = 2
    /\ Str(file_names[1]) = "2-dummy-fn.patch"
    /\ Str(file_names[2]) = "10-println.patch"
    /\ built[1] = [index |-> 2, name |-> "dummy fn", path |-> "2-dummy-fn.patch"]
    /\ built[2] = [index |-> 10, name |-> "println", path |-> "10-println.patch"]

(***************************************************************************)
(* Order of the patches of an iteration.                                   *)
(***************************************************************************)
\* the index Patch::new gave the patch of this name
IndexOfPatch(name) == (CHOOSE q \in Range(patches) : q.name = name).index

\* C28: in every timing directory the patches applied so far are applied
\* in increasing order of their numeric index, one on top of the other and
\* none twice, and they are the patches of the least indices: every
\* iteration of every build kind applies them in that same order.
C28_PatchesInIndexOrder ==
    /\ \A j, k \in DOMAIN cwd.applied :
          j < k => IndexOfPatch(cwd.applied[j]) < IndexOfPatch(cwd.applied[k])
    /\ \A j \in DOMAIN cwd.applied : \A q \in Range(patches) :
          q.index < IndexOfPatch(cwd.applied[j]) => \E k \in 1..j : cwd.applied[k] = q.name

(***************************************************************************)
(* Uploads of raw self-profile data.                                       *)
(***************************************************************************)
\* the step is process_output of a BenchProcessor with uploads enabled, on
\* a successful output that holds self-profile data: it starts an upload
StartsUpload ==
    /\ processor.kind = "Bench"
    /\ processor.upload_to_s3
    /\ mpc = "output"
    /\ mpc' \notin {"output", "aborted"}
    /\ \E k \in DOMAIN output : output[k].marker
    /\ \E k \in DOMAIN output : ~output[k].marker /\ Len(output[k].parts) = 5

\* C29: no step leaves more than one upload in flight; the step in which
\* BenchProcessor starts an upload leaves exactly that upload in flight,
\* whatever was in flight before, holds its handle, and returns to the
\* runner with the upload still in flight: the runner goes on to the next
\* leaf or finishes the build kind.
C29_OneUploadInFlight ==
    [][/\ in_flight' <= 1
       /\ StartsUpload =>
             /\ in_flight' = 1
             /\ upload' = "Some"
             /\ mpc' \in {"leaf", "patch", "iter_head"}]_vars

\* C29 witness: two results with self-profile data were recorded, so two
\* uploads were started, and the runner is at a later leaf with one upload
\* in flight
C29_Witness ==
    /\ processor.kind = "Bench"
    /\ upload = "Some"
    /\ in_flight = 1
    /\ Cardinality(conn) >= 2
    /\ mpc = "leaf"
    /\ i = 0

(***************************************************************************)
(* The legality table of the tools.                                        *)
(***************************************************************************)
\* C30: a build kind is refused exactly for llvm-lines with Check, a run
\* kind is refused exactly for llvm-lines with a run kind other than Full,
\* and the cargo subcommand is `rustc` for every tool but llvm-lines.
C30_LegalityTable ==
    tpc = "answered" =>
        /\ tool_answer.build_kind_allowed
              <=> ~(tool_query.profiler = "llvm-lines" /\ tool_query.build_kind = "Check")
        /\ tool_answer.run_kind_allowed
              <=> ~(tool_query.profiler = "llvm-lines" /\ tool_query.run_kind # "Full")
        /\ (tool_answer.subcommand = "rustc") <=> (tool_query.profiler # "llvm-lines")

\* C30 witness: llvm-lines was asked for a Check build of an IncrPatched run
\* and refused both, with another subcommand than `rustc`
C30_Witness ==
    /\ tpc = "answered"
    /\ tool_query = [profiler |-> "llvm-lines", build_kind |-> "Check", run_kind |-> "IncrPatched"]
    /\ ~tool_answer.build_kind_allowed
    /\ ~tool_answer.run_kind_allowed
    /\ tool_answer.subcommand = "llvm-lines"

(***************************************************************************)
(* Resolving a tool by its name.                                           *)
(***************************************************************************)
\* the ten names that can be given directly, with the tool of each
DirectTools ==
    [n \in {"self-profile", "time-passes", "perf-record", "oprofile", "cachegrind",
            "callgrind", "dhat", "massif", "eprintln", "llvm-lines"} |->
        CASE n = "self-profile" -> "SelfProfile"
          [] n = "time-passes" -> "TimePasses"
          [] n = "perf-record" -> "PerfRecord"
          [] n = "oprofile" -> "OProfile"
          [] n = "cachegrind" -> "Cachegrind"
          [] n = "callgrind" -> "Callgrind"
          [] n = "dhat" -> "DHAT"
          [] n = "massif" -> "Massif"
          [] n = "eprintln" -> "Eprintln"
          [] n = "llvm-lines" -> "LlvmLines"]

\* C31: from_name resolves each of the ten directly usable names to its
\* tool, whose name() is the given string; "perf-stat" is rejected with the
\* PerfStat error; every other string, "perf-stat-self-profile" included,
\* fails with UnknownProfiler carrying the given string.
C31_FromName ==
    resolved # NotResolved =>
        /\ name_arg \in DOMAIN DirectTools =>
              /\ resolved.result.tag = "Ok"
              /\ resolved.result.profiler = DirectTools[name_arg]
              /\ resolved.name = name_arg
        /\ name_arg = "perf-stat" =>
              /\ resolved.result.tag = "Err"
              /\ resolved.result.error = "PerfStat"
        /\ name_arg \notin DOMAIN DirectTools \cup {"perf-stat"} =>
              /\ resolved.result.tag = "Err"
              /\ resolved.result.error = "UnknownProfiler"
              /\ resolved.result.carried = name_arg

\* C31 witness: "perf-stat" was given and rejected with the PerfStat error
C31_Witness ==
    /\ name_arg = "perf-stat"
    /\ resolved.result.tag = "Err"
    /\ resolved.result.error = "PerfStat"

(***************************************************************************)
(* The arguments of interpolate_stats.                                     *)
(***************************************************************************)
\* C32: in every call of interpolate_stats, from the benchmark-level and
\* from the run-level fill, distance is at least 1 and from_start is at
\* most distance.
C32_NoDivisionByZero ==
    \A f \in fills : f.called => (f.distance >= 1 /\ f.from_start <= f.distance)

(***************************************************************************)
(* The internal-consistency failures of the run-level fill.                *)
(***************************************************************************)
\* a run of the recency window is missing from the benchmark the run-level
\* fill is looking at
RunsMissingHere ==
    /\ ipc = "runs"
    /\ data_next[commit_idx].benchmarks[bench_order[bench_pos]].tag = "ok"
    /\ \E r \in RunIds :
          /\ \E j \in 1..Len(data_real) :
                /\ j > Len(data_real) - 20
                /\ data_real[j].benchmarks[bench_order[bench_pos]].tag = "ok"
                /\ \E k \in DOMAIN data_real[j].benchmarks[bench_order[bench_pos]].runs :
                      data_real[j].benchmarks[bench_order[bench_pos]].runs[k].id = r
          /\ \A k \in DOMAIN data_next[commit_idx].benchmarks[bench_order[bench_pos]].runs :
                data_next[commit_idx].benchmarks[bench_order[bench_pos]].runs[k].id # r

RunCountHere == Len(data_next[commit_idx].benchmarks[bench_order[bench_pos]].runs)

DistinctShas ==
    \A j, k \in 1..Len(data_real) : j # k => data_real[j].commit.sha # data_real[k].commit.sha

\* C33: with pairwise-distinct shas the run-level fill never fails: every
\* run judged missing has a last-seen or a next-seen occurrence, the start
\* and the end found are never the target commit, and a call of
\* fill_benchmark_runs with a non-empty missing list adds runs to the
\* benchmark.
C33_RunFillNeverFails ==
    /\ [](DistinctShas =>
            /\ ipc # "panicked"
            /\ \A f \in fills :
                  f.level = "run" =>
                     /\ f.start # 0 \/ f.end # 0
                     /\ f.start # f.c
                     /\ f.end # f.c
                     /\ f.start # 0 => data_real[f.start].commit # data_real[f.c].commit
                     /\ f.end # 0 => data_real[f.end].commit # data_real[f.c].commit)
    /\ [][(DistinctShas /\ RunsMissingHere) =>
             (/\ ipc' \in {"bench", "finish"}
              /\ data_next'[commit_idx].benchmarks[bench_order[bench_pos]].tag = "ok"
              /\ Len(data_next'[commit_idx].benchmarks[bench_order[bench_pos]].runs) > RunCountHere)]_vars

\* C33 witness: the pass has ended after a run was filled from a last-seen
\* occurrence alone and another from a next-seen occurrence alone
C33_Witness ==
    /\ ipc = "done"
    /\ \E f \in fills : f.level = "run" /\ f.start # 0 /\ f.end = 0
    /\ \E f \in fills : f.level = "run" /\ f.start = 0 /\ f.end # 0

(***************************************************************************)
(* Try commits as sources of fabricated values.                            *)
(***************************************************************************)
NotTry(j) == data_real[j].commit.date # "2000-01-01"

\* C34: the start and the end chosen by the benchmark-level and by the
\* run-level fill are never try commits, and every run the run-level fill
\* adds is known from a commit of the recency window that is not a try
\* commit.
C34_NoTrySources ==
    \A f \in fills :
        /\ f.start # 0 => NotTry(f.start)
        /\ f.end # 0 => NotTry(f.end)
        /\ f.level = "run" =>
              \E j \in 1..Len(data_real) :
                  /\ j > Len(data_real) - 20
                  /\ NotTry(j)
                  /\ data_real[j].benchmarks[f.benchmark].tag = "ok"
                  /\ \E k \in DOMAIN data_real[j].benchmarks[f.benchmark].runs :
                        data_real[j].benchmarks[f.benchmark].runs[k].id = f.run

C36_TriesShared ==
    /\ [](tries \in 0..5)
    /\ [][\/ UploadFinishes
          \/ mpc' = "aborted"
          \/ /\ tries' >= tries
             /\ (processor.kind = "Bench" /\ mpc = "output" /\ retry' = "Yes") => tries' = tries + 1
             /\ tries' # tries =>
                   /\ processor.kind = "Bench"
                   /\ mpc = "output"
                   /\ retry' = "Yes"
                   /\ tries' = tries + 1]_vars

\* C36 witness: the five retries are used up and a later leaf, in the
\* second iteration of the second build kind, has succeeded
C36_Witness ==
    /\ processor.kind = "Bench"
    /\ tries = 5
    /\ bk = 2
    /\ i = 1
    /\ retry = "No"
    /\ mpc = "leaf"

(***************************************************************************)
(* Unsuccessful toolchain processes.                                       *)
(***************************************************************************)
\* C37: process_output only ever sees the output of a process that exited
\* successfully; when the process of a leaf exits unsuccessfully run_rustc
\* returns the error "expected success": the processor is not consulted, no
\* accumulator changes and the leaf is not retried.
C37_OnlySuccessfulOutput ==
    /\ [](mpc = "output" => exit_status = "exited")
    /\ [][\/ UploadFinishes
          \/ /\ (mpc = "leaf" /\ exit_status' = "rustc failed") =>
                   /\ mpc' = "error"
                   /\ err' = "expected success"
                   /\ <<buckets, tries, conn, upload, runs, retry, completed, output>>'
                        = <<buckets, tries, conn, upload, runs, retry, completed, output>>
             /\ mpc # "error"]_vars

\* C37 witness: the retried process of a patched leaf exited unsuccessfully
C37_Witness ==
    /\ mpc = "error"
    /\ exit_status = "rustc failed"
    /\ retry = "Yes"
    /\ last_leaf.leaf.run_kind = "IncrPatched"

(***************************************************************************)
(* The wrapper of the leaves of MeasureProcessor.                          *)
(***************************************************************************)
\* the toolchain process of a leaf is invoked in this step
InvokesLeaf == mpc = "leaf" /\ mpc' \in {"output", "error"} /\ leaf_spawned'

\* C38: a MeasureProcessor with self-profiling wraps the leaves of the
\* first iteration of every build kind, retries included, with
\* perf-stat-self-profile and the leaves of every later iteration with
\* perf-stat; without self-profiling every leaf is wrapped with perf-stat;
\* is_first_collection is true during the first iteration of every build
\* kind and false from the second on; the preparatory build has no wrapper.
C38_WrapperPerIteration ==
    /\ []((processor.kind = "Measure" /\ mpc \in {"timing_dir", "patch", "leaf", "output"})
            => (is_first_collection <=> i = 0))
    /\ []((processor.kind = "Measure" /\ mpc = "iter_head" /\ i = 0) => is_first_collection)
    /\ [][\/ UploadFinishes
          \/ processor.kind # "Measure"
          \/ /\ InvokesLeaf =>
                   wrapper' = IF processor.self_profile /\ i = 0
                              THEN "perf-stat-self-profile"
                              ELSE "perf-stat"
             /\ (mpc = "prep_build" /\ mpc' # "aborted") => wrapper' = "None"
             /\ wrapper' # wrapper => (mpc \in {"leaf", "prep_build"} \/ mpc' = "aborted")]_vars

\* C38 witness: a leaf of the first iteration of the second build kind ran
\* under perf-stat-self-profile, after the second iteration of the first
\* build kind
C38_Witness ==
    /\ processor = MeasureProcessor(TRUE)
    /\ bk = 2
    /\ i = 0
    /\ mpc = "output"
    /\ wrapper = "perf-stat-self-profile"
    /\ runs # << >>

(***************************************************************************)
(* One reload at a time.                                                   *)
(***************************************************************************)
\* the requests whose reload has started and has not ended
Reloading == {r \in Requests : rpc[r] \in {"repo", "fetch", "load", "write", "store", "failed"}}

\* C39: at most one reload is in progress at any time; a push request
\* starts a reload only when it switches `updating` from false to true; a
\* push request that finds the flag set starts no reload, leaves the
\* dataset alone and is answered "Already updating!".
C39_OneReload ==
    /\ [](Cardinality(Reloading) <= 1)
    /\ [][\A r \in Requests :
            /\ (rpc[r] = "new" /\ rpc'[r] # "new" /\ updating) =>
                  /\ rpc'[r] = "done"
                  /\ response'[r] = "Already updating!"
                  /\ server_data' = server_data
                  /\ updating'
                  /\ Reloading' = Reloading
            /\ (r \in Reloading' /\ r \notin Reloading) =>
                  /\ rpc[r] = "new"
                  /\ ~updating
                  /\ updating']_vars

\* C39 witness: a push request was answered "Already updating!" while the
\* reload of another one was loading
C39_Witness ==
    \E r, q \in Requests :
        /\ rpc[r] = "load"
        /\ rpc[q] = "done"
        /\ response[q] = "Already updating!"
        /\ updating

\* C40: every reload that starts sets `updating` back to false: whenever
\* the flag is set it is cleared later.
C40_FlagIsCleared == updating ~> ~updating

====
